---------------------------- MODULE Spec2Model ----------------------------
(***************************************************************************)
(* Model of the OpenAPI front end of the SDK generator:                    *)
(*   - generateOperationId  (src/src/openapi-parser.ts, the Operation      *)
(*     Namer), over strings modelled as sequences of one-character strings *)
(*   - extractEndpoints     (src/src/openapi-parser.ts)                    *)
(*   - schemaToType         (src/src/schema-to-types.ts, the Projector)    *)
(*   - loadOpenAPISpec      (src/src/openapi-parser.ts, the Resolver)      *)
(*   - the generate command (src/unnamed/part_001), which loads every     *)
(*     input file and then runs the renderers                             *)
(*   - getSchemaFromContent (src/src/openapi-parser.ts)                    *)
(*   - generateHook         (src/src/hooks-generator.ts) with the          *)
(*     declarations of src/src/schema-to-types.ts it puts in front of a    *)
(*     hook, and the hooks it generates, mounted in a component            *)
(* Each has its own specification: SpecNamer, SpecExtract, SpecProject,    *)
(* SpecLoad, SpecRun, SpecContent, SpecGenerate, SpecCalls, SpecHook.      *)
(* JavaScript strings are sequences of characters; JavaScript objects are  *)
(* ordered lists of (key, value) entries, in insertion order, as           *)
(* Object.entries enumerates non-numeric keys.  An optional field is a     *)
(* record [present |-> FALSE] or [present |-> TRUE, value |-> v].          *)
(***************************************************************************)
EXTENDS Integers, Sequences, FiniteSets, TLC

VARIABLES
    path,        \* namer run: the pathPattern argument
    method,      \* namer run: the method argument (upper-cased verb)
    ident,       \* namer run: the returned identifier
    npc,         \* namer run: "idle" | "call" | "returned"
    spec,        \* extraction run: the resolved document handed to extractEndpoints
    endpoints,   \* extraction run: the returned EndpointInfo[]
    xpc,         \* extraction run: "idle" | "resolved" | "extracted"
    parsed,      \* load run: the document as yaml.load / JSON.parse returned it
    resolved,    \* load run: what loadOpenAPISpec returned
    lpc,         \* load run: "idle" | "parsed" | "resolved" | "failed"
    position,    \* load run: the schema position handed to schemaToType
    heap,        \* projection: the schema nodes schemaToType runs over
    root,        \* projection: the schema argument
    indentArg,   \* projection: the indent argument
    result,      \* projection: what schemaToType returned or threw
    ppc,         \* projection: "idle" | "call" | "projected"
    inputFiles,  \* command: what is found at each input path, in the caller's order
    loads,       \* command: the promise of each loadOpenAPISpec call
    values,      \* command: the array Promise.all fills, one slot per promise
    settled,     \* command: the indices of the loads in the order they settled
    specs,       \* command: what `await Promise.all(...)` evaluated to
    handed,      \* command: the renderers called, each with the list it was given
    allEndpoints, \* command: the endpoint list each renderer collected
    cpc,         \* command: "idle" | "check" | "map" | "await" | "sdk" | "hooks"
                 \*          | "markdown" | "html" | "done" | "exit1"
    calls,       \* namer calls: the calls of generateOperationId so far, with their results
    content,     \* content lookup: the content argument of getSchemaFromContent
    found,       \* content lookup: what getSchemaFromContent returned
    gpc,         \* content lookup: "idle" | "call" | "returned"
    endpoint,    \* hook generation: the EndpointInfo handed to generateHook
    hook,        \* hook generation: what generateHook returned or threw
    hpc,         \* hook generation: "idle" | "call" | "generated"
    enabled,     \* hook in use: params.enabled of the latest render
    data,        \* hook in use: the data state: 0 for null, or the request whose
                 \*              response it holds
    loading,     \* hook in use: the loading state
    error,       \* hook in use: the error state: 0 for null, or the request whose
                 \*              failure it holds
    requests,    \* hook in use: the requests issued so far, with cause and outcome
    arrivals,    \* hook in use: the requests in the order their responses arrived
    effects,     \* hook in use: the runs of the effect callback so far
    rpc          \* hook in use: "idle" | "unmounted" | "mounted"

vars == <<path, method, ident, npc, spec, endpoints, xpc,
          parsed, resolved, lpc, position, heap, root, indentArg, result, ppc,
          inputFiles, loads, values, settled, specs, handed, allEndpoints, cpc,
          calls, content, found, gpc, endpoint, hook, hpc,
          enabled, data, loading, error, requests, arrivals, effects, rpc>>

namerVars == <<path, method, ident, npc>>
extractVars == <<spec, endpoints, xpc>>
loadVars == <<parsed, resolved, lpc, position>>
projectVars == <<heap, root, indentArg, result, ppc>>
runVars == <<inputFiles, loads, values, settled, specs, handed, allEndpoints, cpc>>
genVars == <<calls, content, found, gpc, endpoint, hook, hpc>>
hookVars == <<enabled, data, loading, error, requests, arrivals, effects, rpc>>

(***************************************************************************)
(* Bounds of the model.                                                    *)
(***************************************************************************)
MaxPathLen == 4      \* most pieces of a path pattern given to the namer on its own
MaxPaths == 2        \* most entries of a document's path table
MaxEnum == 2         \* longest enum list of a projected schema
MaxIndent == 1       \* largest indent argument of a projection on its own
MaxFiles == 2        \* most input files of a run of the command
MaxCalls == 3        \* most calls of the namer and the extractor in a row
MaxRequests == 3     \* most requests a mounted hook issues
MaxMedia == 2        \* most media-type entries of a content object

(***************************************************************************)
(* Strings.                                                                *)
(***************************************************************************)
LowerLetters ==
    <<"a","b","c","d","e","f","g","h","i","j","k","l","m",
      "n","o","p","q","r","s","t","u","v","w","x","y","z">>
UpperLetters ==
    <<"A","B","C","D","E","F","G","H","I","J","K","L","M",
      "N","O","P","Q","R","S","T","U","V","W","X","Y","Z">>

IsIn(c, letters) == \E i \in 1..Len(letters) : letters[i] = c
IndexIn(c, letters) == CHOOSE i \in 1..Len(letters) : letters[i] = c

\* String.prototype.toUpperCase / toLowerCase, per character
toUpperCaseChar(c) ==
    IF IsIn(c, LowerLetters) THEN UpperLetters[IndexIn(c, LowerLetters)] ELSE c
toLowerCaseChar(c) ==
    IF IsIn(c, UpperLetters) THEN LowerLetters[IndexIn(c, UpperLetters)] ELSE c
toUpperCase(s) == [i \in 1..Len(s) |-> toUpperCaseChar(s[i])]
toLowerCase(s) == [i \in 1..Len(s) |-> toLowerCaseChar(s[i])]

\* String.prototype.split(sep) for a one-character separator:
\* "" gives [""], "/" gives ["", ""], "/a" gives ["", "a"]
RECURSIVE split(_, _)
split(s, sep) ==
    IF \A i \in 1..Len(s) : s[i] # sep
    THEN <<s>>
    ELSE LET k == CHOOSE i \in 1..Len(s) :
                      s[i] = sep /\ \A j \in 1..(i - 1) : s[j] # sep
         IN  <<SubSeq(s, 1, k - 1)>> \o split(SubSeq(s, k + 1, Len(s)), sep)

\* Array.prototype.join('')
RECURSIVE join(_)
join(parts) == IF parts = <<>> THEN <<>> ELSE Head(parts) \o join(Tail(parts))

\* p.startsWith('{')
startsWithBrace(p) == Len(p) > 0 /\ p[1] = "{"

(***************************************************************************)
(* generateOperationId                                                     *)
(***************************************************************************)
\* .filter(p => p && !p.startsWith('{')) with a bug: keeps what it should drop
keepSegmentKeepsPlaceholders(p) == Len(p) > 0

\* .filter(p => p && !p.startsWith('{'))
keepSegment(p) == Len(p) > 0 /\ ~startsWithBrace(p)

\* p.replace(/[{}]/g, '')
stripBraces(p) == SelectSeq(p, LAMBDA c : c \notin {"{", "}"})

\* p.replace(/-/g, '_')
dashToUnderscore(p) == [i \in 1..Len(p) |-> IF p[i] = "-" THEN "_" ELSE p[i]]

\* p.charAt(0).toUpperCase() + p.slice(1)
capitalize(p) == IF p = <<>> THEN <<>> ELSE <<toUpperCaseChar(p[1])>> \o Tail(p)

\* the two .map steps with a bug: the separators are left as they are
transformSegmentKeepsDash(p) == capitalize(stripBraces(p))

\* the two .map steps of generateOperationId
transformSegment(p) == capitalize(dashToUnderscore(stripBraces(p)))

pathPartsOf(pathPattern) ==
    LET kept == SelectSeq(split(pathPattern, "/"), keepSegment)
    IN  [i \in 1..Len(kept) |-> transformSegment(kept[i])]

Root == <<"R", "o", "o", "t">>

\* generateOperationId with a bug: it remembers the identifiers it has
\* handed out and numbers a repeated one
generateOperationIdUnique(pathPattern, meth) ==
    LET pathParts == pathPartsOf(pathPattern)
        methodLower == toLowerCase(meth)
        id == IF Len(pathParts) = 0 THEN methodLower \o Root
              ELSE methodLower \o join(pathParts)
    IN  IF \E i \in 1..Len(calls) : calls[i].operationId = id
        THEN id \o <<"2">> ELSE id

\* generateOperationId with a bug: the check for an empty pathParts is missing
generateOperationIdNoRoot(pathPattern, meth) ==
    toLowerCase(meth) \o join(pathPartsOf(pathPattern))

generateOperationId(pathPattern, meth) ==
    LET pathParts == pathPartsOf(pathPattern)
        methodLower == toLowerCase(meth)
    IN  IF Len(pathParts) = 0
        THEN methodLower \o Root
        ELSE methodLower \o join(pathParts)

(***************************************************************************)
(* Documents: the part of OpenAPISpec that extractEndpoints reads.         *)
(***************************************************************************)
Absent == [present |-> FALSE]
Some(v) == [present |-> TRUE, value |-> v]

\* x || []
orEmpty(opt) == IF opt.present THEN opt.value ELSE <<>>

GET == <<"g", "e", "t">>
POST == <<"p", "o", "s", "t">>
PUT == <<"p", "u", "t">>
DELETE == <<"d", "e", "l", "e", "t", "e">>
PATCH == <<"p", "a", "t", "c", "h">>

\* const methods = ['get', 'post', 'put', 'delete', 'patch']
methods == <<GET, POST, PUT, DELETE, PATCH>>

\* obj[key] on an object given as its entries: the value, or undefined
hasKey(entries, key) == \E i \in 1..Len(entries) : entries[i].key = key
valueAt(entries, key) ==
    entries[CHOOSE i \in 1..Len(entries) : entries[i].key = key].value

\* allParams.filter(p => p.in === loc)
paramsIn(allParams, loc) == SelectSeq(allParams, LAMBDA p : p.in = loc)

\* operation.operationId || generateOperationId(pathPattern, method.toUpperCase())
\* with a bug: the generated name is always used
operationIdAlwaysGenerated(operation, pathPattern, meth) ==
    generateOperationId(pathPattern, toUpperCase(meth))

\* operation.operationId || generateOperationId(pathPattern, method.toUpperCase())
operationIdOf(operation, pathPattern, meth) ==
    IF operation.operationId.present /\ operation.operationId.value # <<>>
    THEN operation.operationId.value
    ELSE generateOperationId(pathPattern, toUpperCase(meth))

\* [...(pathItem.parameters || []), ...(operation.parameters || [])]
\* with a bug: the operation's parameters come first
allParamsOperationFirst(pathItem, operation) ==
    orEmpty(operation.parameters) \o orEmpty(pathItem.parameters)

\* [...(pathItem.parameters || []), ...(operation.parameters || [])]
allParamsOf(pathItem, operation) ==
    orEmpty(pathItem.parameters) \o orEmpty(operation.parameters)

\* the body of the inner loop after `if (!operation) continue`
endpointOf(pathPattern, pathItem, meth) ==
    LET operation == valueAt(pathItem.verbs, meth)
        allParams == allParamsOf(pathItem, operation)
    IN  [path |-> pathPattern,
         method |-> toUpperCase(meth),
         operationId |-> operationIdOf(operation, pathPattern, meth),
         pathParams |-> paramsIn(allParams, "path"),
         queryParams |-> paramsIn(allParams, "query")]

\* the order the inner loop visits the verbs in, with a bug: the order the
\* path item declares them in
methodsInDeclaredOrder(pathItem) ==
    [i \in 1..Len(pathItem.verbs) |-> pathItem.verbs[i].key]

\* the order the inner loop visits the verbs in
methodsVisited(pathItem) == methods

\* `if (!operation) continue` with a bug: only the first verb found is kept
RECURSIVE firstDeclared(_, _)
firstDeclared(pathItem, ms) ==
    IF ms = <<>> THEN <<>>
    ELSE IF hasKey(pathItem.verbs, Head(ms)) THEN <<Head(ms)>>
    ELSE firstDeclared(pathItem, Tail(ms))

\* `if (!operation) continue`: the verbs of ms the path item has an operation for
declaredAmong(pathItem, ms) ==
    SelectSeq(ms, LAMBDA m : hasKey(pathItem.verbs, m))

\* the inner loop: the endpoints of one path item
endpointsOfPath(pathPattern, pathItem) ==
    LET ms == declaredAmong(pathItem, methodsVisited(pathItem))
    IN  [i \in 1..Len(ms) |-> endpointOf(pathPattern, pathItem, ms[i])]

\* the outer loop over Object.entries(spec.paths)
RECURSIVE extractFrom(_)
extractFrom(pathEntries) ==
    IF pathEntries = <<>> THEN <<>>
    ELSE endpointsOfPath(Head(pathEntries).key, Head(pathEntries).value)
         \o extractFrom(Tail(pathEntries))

extractEndpoints(document) == extractFrom(document.paths)


(***************************************************************************)
(* Schemas.  A document's schema nodes live in a heap (a sequence of       *)
(* nodes); a value found where a schema is expected is undefined, a        *)
(* boolean, or a pointer into the heap, so that the object graph the       *)
(* resolver builds, which may be cyclic, is a graph of pointers.           *)
(***************************************************************************)
Undefined == [kind |-> "undefined"]
Bool(b) == [kind |-> "boolean", value |-> b]
Ptr(n) == [kind |-> "schema", node |-> n]

\* the Schema interface: every field optional
EmptySchema ==
    [ref |-> Absent, type |-> Absent, format |-> Absent, enum |-> Absent,
     items |-> Absent, properties |-> Absent, required |-> Absent, additionalProperties |-> Absent,
     allOf |-> Absent, oneOf |-> Absent, anyOf |-> Absent]

\* JavaScript truthiness of such a value (objects and arrays are truthy)
truthy(v) == v.kind = "schema" \/ (v.kind = "boolean" /\ v.value)
\* truthiness of an optional field holding an object, an array or a string
given(opt) == opt.present

Return(t) == [threw |-> "none", value |-> t]
Throw(e) == [threw |-> e]

\* the first exception among the results of a .map over children, if any
FirstThrown(rs) ==
    IF \E i \in 1..Len(rs) : rs[i].threw # "none"
    THEN Throw(rs[CHOOSE i \in 1..Len(rs) :
                     rs[i].threw # "none" /\ \A j \in 1..(i - 1) : rs[j].threw = "none"].threw)
    ELSE Return([i \in 1..Len(rs) |-> rs[i].value])

\* Array.prototype.join(sep) on type texts; a text is a sequence of pieces
RECURSIVE joinWith(_, _)
joinWith(texts, sep) ==
    IF texts = <<>> THEN <<>>
    ELSE IF Len(texts) = 1 THEN texts[1]
    ELSE texts[1] \o sep \o joinWith(Tail(texts), sep)

\* the characters of s as one piece of text
RECURSIVE implode(_)
implode(s) == IF s = <<>> THEN "" ELSE Head(s) \o implode(Tail(s))

\* isRef: schema !== undefined && '$ref' in schema; the `in` operator throws
\* a TypeError when its right operand is not an object
isRef(h, v) ==
    IF v.kind = "undefined" THEN Return(FALSE)
    ELSE IF v.kind # "schema" THEN Throw("TypeError")
    ELSE Return(h[v.node].ref.present)

getRefTypeNameWholeRef(ref) == ref

\* getRefTypeName: the last of ref.split('/')
getRefTypeName(ref) == split(ref, "/")[Len(split(ref, "/"))]

indentStrDashes(indent) == [i \in 1..indent |-> "--"]

\* '  '.repeat(indent)
indentStr(indent) == [i \in 1..indent |-> "  "]

literalUnquoted(v) == <<v>>

\* `'${v}'`: an enumerated value as a literal type
literal(v) == <<"'", v, "'">>

arrayOfAny(itemType) == <<"Array<", "any", ">">>

\* `Array<${itemType}>`
arrayOf(itemType) == <<"Array<">> \o itemType \o <<">">>

forbidsAdditionalNever(schema) == FALSE

\* schema.additionalProperties === false
forbidsAdditional(schema) == schema.additionalProperties = Some(Bool(FALSE))

isRequiredNever(required, key) == FALSE

\* required.includes(key)
isRequired(required, key) == \E n \in 1..Len(required) : required[n] = key

intersectionAsUnion(types) == joinWith(types, <<" | ">>)

\* types.join(' & ')
intersection(types) == joinWith(types, <<" & ">>)

\* the switch with a bug: a composite key takes precedence over the type
typeOfUnlessComposite(schema) ==
    IF given(schema.allOf) \/ given(schema.oneOf) \/ given(schema.anyOf)
    THEN Absent ELSE schema.type

\* switch (schema.type)
typeOf(schema) == schema.type

RecognisedTypes == {"string", "number", "integer", "boolean", "array", "object"}

\* schemaToType(schema, indent) on heap h; depth is the number of frames of
\* schemaToType on the call stack, and the call that would be frame number
\* limit + 1 throws the engine's RangeError (call stack size exceeded)
RECURSIVE schemaToType(_, _, _, _, _)
schemaToType(h, v, indent, depth, limit) ==
    IF depth > limit THEN Throw("RangeError")
    ELSE IF ~truthy(v) THEN Return(<<"any">>)
    ELSE IF isRef(h, v).threw # "none" THEN Throw(isRef(h, v).threw)
    ELSE IF isRef(h, v).value
    THEN Return(<<implode(getRefTypeName(h[v.node].ref.value))>>)
    ELSE
    LET schema == h[v.node]
        sub(c, ind) == schemaToType(h, c, ind, depth + 1, limit)
        mapped(cs, ind) == FirstThrown([i \in 1..Len(cs) |-> sub(cs[i], ind)])
    IN
    CASE typeOf(schema) = Some("string") ->
           IF given(schema.enum)
           THEN Return(joinWith([i \in 1..Len(schema.enum.value) |->
                                    literal(schema.enum.value[i])], <<" | ">>))
           ELSE IF schema.format = Some("date-time") THEN Return(<<"string">>)
           ELSE Return(<<"string">>)
      [] typeOf(schema) \in {Some("number"), Some("integer")} -> Return(<<"number">>)
      [] typeOf(schema) = Some("boolean") -> Return(<<"boolean">>)
      [] typeOf(schema) = Some("array") ->
           IF given(schema.items) /\ truthy(schema.items.value)
           THEN LET itemType == sub(schema.items.value, indent)
                IN  IF itemType.threw # "none" THEN itemType
                    ELSE Return(arrayOf(itemType.value))
           ELSE Return(<<"any[]">>)
      [] typeOf(schema) = Some("object") ->
           IF ~given(schema.properties)
           THEN IF forbidsAdditional(schema)
                THEN Return(<<"Record<string, never>">>)
                ELSE IF given(schema.additionalProperties)
                        /\ truthy(schema.additionalProperties.value)
                THEN LET valueType == sub(schema.additionalProperties.value, indent)
                     IN  IF valueType.threw # "none" THEN valueType
                         ELSE Return(<<"Record<string, ">> \o valueType.value \o <<">">>)
                ELSE Return(<<"Record<string, any>">>)
           ELSE LET required == orEmpty(schema.required)
                    entries == schema.properties.value
                    propTypes == mapped([i \in 1..Len(entries) |-> entries[i].value],
                                        indent + 1)
                    prop(i) ==
                        indentStr(indent) \o <<"  ", entries[i].key>>
                        \o (IF isRequired(required, entries[i].key) THEN <<>> ELSE <<"?">>)
                        \o <<": ">> \o propTypes.value[i] \o <<";">>
                IN  IF propTypes.threw # "none" THEN propTypes
                    ELSE Return(<<"{", "\n">>
                                \o joinWith([i \in 1..Len(entries) |-> prop(i)], <<"\n">>)
                                \o <<"\n">> \o indentStr(indent) \o <<"}">>)
      [] OTHER ->
           IF given(schema.allOf)
           THEN LET types == mapped(schema.allOf.value, indent + 1)
                IN  IF types.threw # "none" THEN types
                    ELSE Return(intersection(types.value))
           ELSE IF given(schema.oneOf) \/ given(schema.anyOf)
           THEN LET types == mapped(IF given(schema.oneOf) THEN schema.oneOf.value
                                    ELSE schema.anyOf.value, indent + 1)
                IN  IF types.threw # "none" THEN types
                    ELSE Return(<<"(">> \o joinWith(types.value, <<" | ">>) \o <<")">>)
           ELSE Return(<<"any">>)

(***************************************************************************)
(* Inputs of the namer run.                                                *)
(***************************************************************************)
\* path patterns are built from these pieces, so that every brace belongs to
\* a placeholder {name}
PathPieces ==
    { <<"/">>, <<"{", "a", "}">>, <<"{", "b", "}">>, <<"-">>, <<"_">>, <<"a">>, <<"b">> }
PiecedPaths == { join(t) : t \in UNION {[1..n -> PathPieces] : n \in 0..MaxPathLen} }
\* word separators stand between the words of a segment, not at its ends
SeparatorsInside(p) ==
    \A i \in 1..Len(split(p, "/")) :
        LET seg == split(p, "/")[i]
        IN  seg = <<>> \/ (seg[1] \notin {"-", "_"} /\ seg[Len(seg)] \notin {"-", "_"})
NamerPaths == { p \in PiecedPaths : SeparatorsInside(p) }
UpperMethods == {toUpperCase(methods[i]) : i \in 1..Len(methods)}

(***************************************************************************)
(* Inputs of the extraction run.                                           *)
(***************************************************************************)
UsersIdPath == <<"/", "u", "s", "e", "r", "s", "/", "{", "i", "d", "}">>
UsersPath == <<"/", "u", "s", "e", "r", "s">>
SlashPath == <<"/">>
PathKeys == {UsersIdPath, UsersPath, SlashPath}

ListAll == <<"l", "i", "s", "t", "A", "l", "l">>

Param(n, loc) == [name |-> n, in |-> loc]
OperationParams == <<Param("p2", "path"), Param("q", "query"), Param("h", "header")>>
PathItemParams == <<Param("a", "query"), Param("c", "cookie"), Param("id", "path")>>

Operation(id, params) == [operationId |-> id, parameters |-> params]
Operations ==
    << Operation(Absent, Absent),
       Operation(Some(<<>>), Absent),
       Operation(Some(ListAll), Some(<<Param("q", "query")>>)),
       Operation(Absent, Some(OperationParams)) >>

\* the verbs of a path item in the order the document declares them
DeclOrders ==
    { <<>>, <<GET>>, <<POST, GET>>, <<PATCH, DELETE, PUT, POST, GET>> }

\* a path item declaring the verbs of decl, its i-th verb carrying the
\* operation Operations[((s + i) % Len(Operations)) + 1]
PathItem(decl, s, params) ==
    [verbs |-> [i \in 1..Len(decl) |->
                   [key |-> decl[i],
                    value |-> Operations[((s + i) % Len(Operations)) + 1]]],
     parameters |-> params]

PathItems ==
    { PathItem(decl, s, params) :
        decl \in DeclOrders, s \in {0, 1},
        params \in {Absent, Some(PathItemParams)} }

\* path tables: up to MaxPaths entries with distinct keys
PathTables ==
    UNION { { t \in [1..n -> [key : PathKeys, value : PathItems]] :
                \A i, j \in 1..n : i # j => t[i].key # t[j].key } :
            n \in 0..MaxPaths }

Documents ==
    { [paths |-> t, heap |-> <<>>, components |-> <<>>, response |-> Undefined] :
        t \in PathTables }

NoDocument == [paths |-> <<>>, heap |-> <<>>, components |-> <<>>, response |-> Undefined]

(***************************************************************************)
(* The namer run: one call of generateOperationId.                         *)
(***************************************************************************)
IdleNamer == path = <<>> /\ method = <<>> /\ ident = <<>> /\ npc = "idle"
IdleExtract == spec = NoDocument /\ endpoints = <<>> /\ xpc = "idle"
IdleLoad ==
    /\ parsed = NoDocument
    /\ resolved = NoDocument
    /\ lpc = "idle"
    /\ position = "none"
IdleProject ==
    /\ heap = <<>>
    /\ root = Undefined
    /\ indentArg = 0
    /\ result = Return(<<>>)
    /\ ppc = "idle"
IdleRun ==
    /\ inputFiles = <<>>
    /\ loads = <<>>
    /\ values = <<>>
    /\ settled = <<>>
    /\ specs = <<>>
    /\ handed = <<>>
    /\ allEndpoints = <<>>
    /\ cpc = "idle"
NoEndpoint ==
    [path |-> <<>>, method |-> <<>>, operationId |-> <<>>, pathParams |-> <<>>,
     queryParams |-> <<>>, requestBody |-> Undefined, responses |-> <<>>]
IdleGen ==
    /\ calls = <<>>
    /\ content = Absent
    /\ found = Undefined
    /\ gpc = "idle"
    /\ endpoint = NoEndpoint
    /\ hook = Return(<<>>)
    /\ hpc = "idle"
IdleHook ==
    /\ enabled = Absent
    /\ data = 0
    /\ loading = FALSE
    /\ error = 0
    /\ requests = <<>>
    /\ arrivals = <<>>
    /\ effects = <<>>
    /\ rpc = "idle"

InitNamer ==
    /\ path \in NamerPaths
    /\ method \in UpperMethods
    /\ ident = <<>>
    /\ npc = "call"
    /\ IdleExtract
    /\ IdleLoad
    /\ IdleProject
    /\ IdleRun
    /\ IdleGen
    /\ IdleHook

CallNamer ==
    /\ npc = "call"
    /\ ident' = generateOperationId(path, method)
    /\ npc' = "returned"
    /\ UNCHANGED <<path, method>>
    /\ UNCHANGED <<extractVars, loadVars, projectVars>>
    /\ UNCHANGED runVars
    /\ UNCHANGED genVars
    /\ UNCHANGED hookVars

NextNamer == CallNamer

SpecNamer == InitNamer /\ [][NextNamer]_vars

(***************************************************************************)
(* The extraction run: one call of extractEndpoints on a resolved document.*)
(***************************************************************************)
InitExtract ==
    /\ spec \in Documents
    /\ endpoints = <<>>
    /\ xpc = "resolved"
    /\ IdleNamer
    /\ IdleLoad
    /\ IdleProject
    /\ IdleRun
    /\ IdleGen
    /\ IdleHook

Extract ==
    /\ xpc = "resolved"
    /\ endpoints' = extractEndpoints(spec)
    /\ xpc' = "extracted"
    /\ UNCHANGED spec
    /\ UNCHANGED <<namerVars, loadVars, projectVars>>
    /\ UNCHANGED runVars
    /\ UNCHANGED genVars
    /\ UNCHANGED hookVars

NextExtract == Extract

SpecExtract == InitExtract /\ [][NextExtract]_vars


(***************************************************************************)
(* The projection run: one call of schemaToType on a schema node that      *)
(* combines the fields of the Schema interface in every way.               *)
(***************************************************************************)
NodeRef ==
    <<"#", "/", "c", "o", "m", "p", "o", "n", "e", "n", "t", "s", "/",
      "s", "c", "h", "e", "m", "a", "s", "/", "N", "o", "d", "e">>

PetRef ==
    <<"p", "e", "t", "s", ".", "y", "a", "m", "l", "#", "/",
      "d", "e", "f", "s", "/", "P", "e", "t">>

EnumValues == <<"a", "b", "c", "d">>

\* the schemas the probed node's fields point to: heap nodes 2 to 8
StringSchema == [EmptySchema EXCEPT !.type = Some("string")]
IntegerSchema == [EmptySchema EXCEPT !.type = Some("integer")]
NodeRefSchema == [EmptySchema EXCEPT !.ref = Some(NodeRef)]
OwnerSchema ==
    [EmptySchema EXCEPT !.type = Some("object"),
                        !.properties = Some(<<[key |-> "id", value |-> Ptr(5)]>>),
                        !.required = Some(<<"id">>)]

\* {}: a schema with no key
AnySchema == EmptySchema
\* {type: array, items: {type: string}}
StringsSchema == [EmptySchema EXCEPT !.type = Some("array"), !.items = Some(Ptr(2))]
\* a reference that carries the keys of an object schema besides its $ref
KeyedRefSchema == [OwnerSchema EXCEPT !.ref = Some(PetRef)]

ProbeSchemas ==
    { [ref |-> Absent, type |-> t, format |-> Absent, enum |-> e, items |-> i, properties |-> p,
       required |-> r, additionalProperties |-> a,
       allOf |-> al, oneOf |-> o, anyOf |-> an] :
        t \in {Absent, Some("file")} \cup {Some(x) : x \in RecognisedTypes},
        e \in {Absent} \cup {Some(SubSeq(EnumValues, 1, n)) : n \in 0..MaxEnum},
        i \in {Absent, Some(Ptr(3))},
        p \in {Absent, Some(<<>>),
               Some(<<[key |-> "name", value |-> Ptr(2)],
                      [key |-> "owner", value |-> Ptr(4)]>>)},
        r \in {Absent, Some(<<"name">>)},
        a \in {Absent, Some(Bool(FALSE)), Some(Bool(TRUE)), Some(Ptr(2))},
        al \in {Absent, Some(<<>>), Some(<<Ptr(4), Ptr(3)>>)},
        o \in {Absent, Some(<<Ptr(2), Ptr(5)>>)},
        an \in {Absent, Some(<<Ptr(5)>>)} }

\* reference strings: a pointer into the document, a bare name, a pointer
\* into another file, a pointer ending in a slash
RefStrings == {NodeRef, <<"N", "o", "d", "e">>, PetRef, NodeRef \o <<"/">>}

\* references that carry other keys as well
RefProbes ==
    { [p EXCEPT !.ref = Some(r)] :
        p \in {q \in ProbeSchemas :
                  /\ q.enum = Absent /\ q.required = Absent
                  /\ q.additionalProperties = Absent
                  /\ q.oneOf = Absent /\ q.anyOf = Absent},
        r \in RefStrings }

\* strings with a format
FormatProbes ==
    { [EmptySchema EXCEPT !.type = Some("string"), !.format = Some(f), !.enum = e] :
        f \in {"date-time", "email"},
        e \in {Absent} \cup {Some(SubSeq(EnumValues, 1, n)) : n \in 0..MaxEnum} }

\* schemas whose children are an empty schema, a nested array, or a
\* reference carrying other keys
NestingProbes ==
    { [EmptySchema EXCEPT !.type = t, !.items = Some(c), !.additionalProperties = Some(c),
                          !.properties = p, !.required = Some(<<"tags", "pet">>),
                          !.allOf = al, !.oneOf = Some(<<c, Ptr(2)>>)] :
        t \in {Absent, Some("array"), Some("object")},
        c \in {Ptr(6), Ptr(7), Ptr(8), Ptr(4)},
        p \in {Absent, Some(<<[key |-> "tags", value |-> Ptr(7)],
                              [key |-> "any", value |-> Ptr(6)],
                              [key |-> "pet", value |-> Ptr(8)]>>)},
        al \in {Absent, Some(<<Ptr(7), Ptr(8), Ptr(2)>>)} }

\* {type: object, properties: {name: {type: string}, age: {type: integer}},
\*  required: [name]}
PersonSchema ==
    [EmptySchema EXCEPT !.type = Some("object"),
                        !.properties = Some(<<[key |-> "name", value |-> Ptr(2)],
                                              [key |-> "age", value |-> Ptr(5)]>>),
                        !.required = Some(<<"name">>)]

Probes == ProbeSchemas \cup RefProbes \cup FormatProbes \cup NestingProbes \cup {PersonSchema}

ProbeHeaps ==
    { <<probe, StringSchema, NodeRefSchema, OwnerSchema, IntegerSchema,
        AnySchema, StringsSchema, KeyedRefSchema>> :
        probe \in Probes }

\* a chain of calls longer than the heap has nodes visits some node twice,
\* and then never ends: the model lets the stack hold that many frames
stackLimit(h) == Len(h)

InitProject ==
    /\ heap \in ProbeHeaps
    /\ root = Ptr(1)
    /\ indentArg \in 0..MaxIndent
    /\ result = Return(<<>>)
    /\ ppc = "call"
    /\ IdleNamer
    /\ IdleExtract
    /\ IdleLoad
    /\ IdleRun
    /\ IdleGen
    /\ IdleHook

Project ==
    /\ ppc = "call"
    /\ result' = schemaToType(heap, root, indentArg, 1, stackLimit(heap))
    /\ ppc' = "projected"
    /\ UNCHANGED <<heap, root, indentArg>>
    /\ UNCHANGED <<namerVars, extractVars, loadVars>>
    /\ UNCHANGED runVars
    /\ UNCHANGED genVars
    /\ UNCHANGED hookVars

NextProject == Project

SpecProject == InitProject /\ [][NextProject]_vars

(***************************************************************************)
(* The load run: loadOpenAPISpec on a parsed document, then schemaToType   *)
(* on one schema position of what it returned.                             *)
(*                                                                         *)
(* $RefParser.dereference is the json-schema-ref-parser library.  With the *)
(* options of the call (no dereference.circular, so its default) it        *)
(* replaces every {$ref} object by the object the pointer designates, the  *)
(* same object at every use, so that a schema that refers to itself        *)
(* becomes an object graph with a cycle and no {$ref} is left; a pointer   *)
(* to nothing makes it reject.                                             *)
(***************************************************************************)
Hash == <<"#">>
ComponentsKey == <<"c", "o", "m", "p", "o", "n", "e", "n", "t", "s">>
SchemasKey == <<"s", "c", "h", "e", "m", "a", "s">>
NodeName == <<"N", "o", "d", "e">>
UserName == <<"U", "s", "e", "r">>
GhostName == <<"G", "h", "o", "s", "t">>

\* "#/components/schemas/" + name
RefTo(name) == Hash \o <<"/">> \o ComponentsKey \o <<"/">> \o SchemasKey \o <<"/">> \o name

\* whether a JSON pointer designates something in the document
pointerFound(document, ref) ==
    LET segs == split(ref, "/")
    IN  /\ Len(segs) = 4
        /\ segs[1] = Hash
        /\ segs[2] = ComponentsKey
        /\ segs[3] = SchemasKey
        /\ hasKey(document.components, segs[4])

\* what the pointer designates
pointerTarget(document, ref) == valueAt(document.components, split(ref, "/")[4])

resolveValueKeepsRef(document, v) == v

\* a value of the tree after dereferencing: a {$ref} object gives way to the
\* object its pointer designates
resolveValue(document, v) ==
    IF v.kind = "schema" /\ document.heap[v.node].ref.present
    THEN pointerTarget(document, document.heap[v.node].ref.value)
    ELSE v

resolveOpt(document, opt) ==
    IF opt.present /\ opt.value.kind = "schema"
    THEN Some(resolveValue(document, opt.value)) ELSE opt

resolveList(document, opt) ==
    IF opt.present
    THEN Some([i \in 1..Len(opt.value) |-> resolveValue(document, opt.value[i])])
    ELSE opt

resolveNode(document, n) ==
    [n EXCEPT
        !.items = resolveOpt(document, n.items),
        !.additionalProperties = resolveOpt(document, n.additionalProperties),
        !.properties =
            IF n.properties.present
            THEN Some([i \in 1..Len(n.properties.value) |->
                          [key |-> n.properties.value[i].key,
                           value |-> resolveValue(document, n.properties.value[i].value)]])
            ELSE n.properties,
        !.allOf = resolveList(document, n.allOf),
        !.oneOf = resolveList(document, n.oneOf),
        !.anyOf = resolveList(document, n.anyOf)]

\* some {$ref} of the document points to nothing
dangling(document) ==
    \E i \in 1..Len(document.heap) :
        /\ document.heap[i].ref.present
        /\ ~pointerFound(document, document.heap[i].ref.value)

\* $RefParser.dereference(spec, ...)
dereference(document) ==
    IF dangling(document) THEN Throw("MissingPointerError")
    ELSE Return([heap |-> [i \in 1..Len(document.heap) |->
                              resolveNode(document, document.heap[i])],
                 components |->
                     [i \in 1..Len(document.components) |->
                         [key |-> document.components[i].key,
                          value |-> resolveValue(document, document.components[i].value)]],
                 response |-> resolveValue(document, document.response),
                 paths |-> document.paths])

\* the schemas a slot of the document may hold
UserSchema ==
    [EmptySchema EXCEPT !.type = Some("object"),
                        !.properties = Some(<<[key |-> "name", value |-> Ptr(4)]>>),
                        !.required = Some(<<"name">>)]
RefSchema(name) == [EmptySchema EXCEPT !.ref = Some(RefTo(name))]
SlotSchemas ==
    {RefSchema(NodeName), RefSchema(UserName), RefSchema(GhostName), StringSchema, UserSchema}

\* components.schemas.Node = {type: object, properties: {children: {type: array,
\* items: <slot 5>}, friend: <slot 6>}}, components.schemas.User, and a
\* response whose schema is <slot 7>
NodeSchema ==
    [EmptySchema EXCEPT !.type = Some("object"),
                        !.properties = Some(<<[key |-> "children", value |-> Ptr(2)],
                                              [key |-> "friend", value |-> Ptr(6)]>>)]
ChildrenSchema == [EmptySchema EXCEPT !.type = Some("array"), !.items = Some(Ptr(5))]

ParsedDocuments ==
    { [heap |-> <<NodeSchema, ChildrenSchema, UserSchema, StringSchema, items, friend, resp>>,
       components |-> <<[key |-> NodeName, value |-> Ptr(1)],
                        [key |-> UserName, value |-> Ptr(3)]>>,
       response |-> Ptr(7),
       paths |-> <<>>] :
        items \in SlotSchemas, friend \in SlotSchemas, resp \in SlotSchemas }

\* the schema positions a renderer projects
Positions == {"Node", "User", "response"}
valueOfPosition(document, pos) ==
    CASE pos = "Node" -> valueAt(document.components, NodeName)
      [] pos = "User" -> valueAt(document.components, UserName)
      [] pos = "response" -> document.response

InitLoad ==
    /\ parsed \in ParsedDocuments
    /\ resolved = NoDocument
    /\ lpc = "parsed"
    /\ position = "none"
    /\ IdleNamer
    /\ IdleExtract
    /\ IdleProject
    /\ IdleRun
    /\ IdleGen
    /\ IdleHook

\* loadOpenAPISpec returns the dereferenced document
LoadResolves ==
    /\ lpc = "parsed"
    /\ dereference(parsed).threw = "none"
    /\ resolved' = dereference(parsed).value
    /\ lpc' = "resolved"
    /\ UNCHANGED <<parsed, position>>
    /\ UNCHANGED <<namerVars, extractVars, projectVars>>
    /\ UNCHANGED runVars
    /\ UNCHANGED genVars
    /\ UNCHANGED hookVars

\* loadOpenAPISpec rejects: the run ends
LoadFails ==
    /\ lpc = "parsed"
    /\ dereference(parsed).threw # "none"
    /\ lpc' = "failed"
    /\ UNCHANGED <<parsed, resolved, position>>
    /\ UNCHANGED <<namerVars, extractVars, projectVars>>
    /\ UNCHANGED runVars
    /\ UNCHANGED genVars
    /\ UNCHANGED hookVars

\* a renderer projects one schema position of the resolved document
ProjectPosition ==
    /\ lpc = "resolved"
    /\ ppc = "idle"
    /\ \E pos \in Positions :
          /\ position' = pos
          /\ heap' = resolved.heap
          /\ root' = valueOfPosition(resolved, pos)
          /\ indentArg' = 0
          /\ result' = schemaToType(resolved.heap, valueOfPosition(resolved, pos), 0,
                                    1, stackLimit(resolved.heap))
    /\ ppc' = "projected"
    /\ UNCHANGED <<parsed, resolved, lpc>>
    /\ UNCHANGED <<namerVars, extractVars>>
    /\ UNCHANGED runVars
    /\ UNCHANGED genVars
    /\ UNCHANGED hookVars

NextLoad == LoadResolves \/ LoadFails \/ ProjectPosition

SpecLoad == InitLoad /\ [][NextLoad]_vars

(***************************************************************************)
(* The generate command: it checks that every input file exists, calls     *)
(* loadOpenAPISpec on each of them, awaits Promise.all of the promises,    *)
(* and then awaits the four renderers one after the other; an exception    *)
(* anywhere is caught, logged, and the process exits with status 1.        *)
(***************************************************************************)
\* what is found at an input path
Missing ==
    [exists |-> FALSE, readable |-> FALSE, wellFormed |-> FALSE, document |-> NoDocument]
Unreadable ==
    [exists |-> TRUE, readable |-> FALSE, wellFormed |-> FALSE, document |-> NoDocument]
Malformed ==
    [exists |-> TRUE, readable |-> TRUE, wellFormed |-> FALSE, document |-> NoDocument]
FileOf(document) ==
    [exists |-> TRUE, readable |-> TRUE, wellFormed |-> TRUE, document |-> document]

\* a document whose schemas refer to the component User, with two operations
UsersDocument ==
    [(CHOOSE d \in ParsedDocuments :
         /\ d.heap[5] = RefSchema(UserName)
         /\ d.heap[6] = StringSchema
         /\ d.heap[7] = RefSchema(UserName))
     EXCEPT !.paths = <<[key |-> UsersPath, value |-> PathItem(<<POST, GET>>, 0, Absent)]>>]
\* a document without schemas, with one operation
ItemDocument ==
    [NoDocument EXCEPT
        !.paths = <<[key |-> UsersIdPath,
                     value |-> PathItem(<<GET>>, 1, Some(PathItemParams))]>>]
\* a document with a reference to a component that does not exist
GhostDocument ==
    [(CHOOSE d \in ParsedDocuments :
         /\ d.heap[5] = RefSchema(GhostName)
         /\ d.heap[6] = StringSchema
         /\ d.heap[7] = StringSchema)
     EXCEPT !.paths = <<[key |-> SlashPath, value |-> PathItem(<<GET>>, 0, Absent)]>>]

InputFileKinds ==
    {Missing, Unreadable, Malformed,
     FileOf(UsersDocument), FileOf(ItemDocument), FileOf(GhostDocument)}

\* fs.readFileSync(filePath, 'utf-8')
readFileSync(file) == IF file.readable THEN Return(file) ELSE Throw("EISDIR")

\* yaml.load(content) or JSON.parse(content)
parse(file) == IF file.wellFormed THEN Return(file.document) ELSE Throw("SyntaxError")

\* loadOpenAPISpec up to its await: an exception there rejects the promise
\* the call returns
readAndParse(file) ==
    IF readFileSync(file).threw # "none" THEN readFileSync(file) ELSE parse(file)

\* loadOpenAPISpec(filePath): what its promise settles to
loadOpenAPISpec(file) ==
    IF readAndParse(file).threw # "none" THEN readAndParse(file)
    ELSE dereference(readAndParse(file).value)

promiseAllSettled(promises) ==
    IF \A i \in 1..Len(promises) : promises[i] # "pending" THEN "fulfilled" ELSE "pending"

\* the promise of Promise.all(promises): rejected as soon as one of the
\* promises is, fulfilled when all of them are
promiseAll(promises) ==
    IF \E i \in 1..Len(promises) : promises[i] = "rejected" THEN "rejected"
    ELSE IF \A i \in 1..Len(promises) : promises[i] = "fulfilled" THEN "fulfilled"
    ELSE "pending"

storeValueNext(array, i, value) ==
    [array EXCEPT ![Cardinality({j \in 1..Len(array) : array[j] # NoDocument}) + 1] = value]

\* Promise.all puts the value of its i-th promise at index i of its array
storeValue(array, i, value) == [array EXCEPT ![i] = value]

\* for (const spec of specs) allEndpoints.push(...extractEndpoints(spec))
RECURSIVE collectEndpoints(_)
collectEndpoints(documents) ==
    IF documents = <<>> THEN <<>>
    ELSE extractEndpoints(Head(documents)) \o collectEndpoints(Tail(documents))

InitRun ==
    /\ inputFiles \in UNION {[1..n -> InputFileKinds] : n \in 1..MaxFiles}
    /\ loads = <<>>
    /\ values = <<>>
    /\ settled = <<>>
    /\ specs = <<>>
    /\ handed = <<>>
    /\ allEndpoints = <<>>
    /\ cpc = "check"
    /\ IdleNamer
    /\ IdleExtract
    /\ IdleLoad
    /\ IdleProject
    /\ IdleGen
    /\ IdleHook

\* for (const file of inputFiles) if (!fs.existsSync(file)) process.exit(1)
CheckFiles ==
    /\ cpc = "check"
    /\ cpc' = IF \E i \in 1..Len(inputFiles) : ~inputFiles[i].exists
              THEN "exit1" ELSE "map"
    /\ UNCHANGED <<inputFiles, loads, values, settled, specs, handed, allEndpoints>>
    /\ UNCHANGED <<namerVars, extractVars, loadVars, projectVars>>
    /\ UNCHANGED genVars
    /\ UNCHANGED hookVars

\* inputFiles.map(file => loadOpenAPISpec(file)): every call runs up to its
\* await and returns a promise, rejected already when reading or parsing
\* threw
CallLoads ==
    /\ cpc = "map"
    /\ loads' = [i \in 1..Len(inputFiles) |->
                    IF readAndParse(inputFiles[i]).threw # "none"
                    THEN "rejected" ELSE "pending"]
    /\ values' = [i \in 1..Len(inputFiles) |-> NoDocument]
    /\ settled' = SelectSeq([i \in 1..Len(inputFiles) |-> i],
                            LAMBDA i : readAndParse(inputFiles[i]).threw # "none")
    /\ cpc' = "await"
    /\ UNCHANGED <<inputFiles, specs, handed, allEndpoints>>
    /\ UNCHANGED <<namerVars, extractVars, loadVars, projectVars>>
    /\ UNCHANGED genVars
    /\ UNCHANGED hookVars

\* the dereference of one of the pending loads settles
Settle(i) ==
    /\ cpc = "await"
    /\ loads[i] = "pending"
    /\ LET outcome == loadOpenAPISpec(inputFiles[i])
       IN  IF outcome.threw = "none"
           THEN /\ loads' = [loads EXCEPT ![i] = "fulfilled"]
                /\ values' = storeValue(values, i, outcome.value)
           ELSE /\ loads' = [loads EXCEPT ![i] = "rejected"]
                /\ values' = values
    /\ settled' = Append(settled, i)
    /\ UNCHANGED <<inputFiles, specs, handed, allEndpoints, cpc>>
    /\ UNCHANGED <<namerVars, extractVars, loadVars, projectVars>>
    /\ UNCHANGED genVars
    /\ UNCHANGED hookVars

\* const specs = await Promise.all(...)
AwaitReturns ==
    /\ cpc = "await"
    /\ promiseAll(loads) = "fulfilled"
    /\ specs' = values
    /\ cpc' = "sdk"
    /\ UNCHANGED <<inputFiles, loads, values, settled, handed, allEndpoints>>
    /\ UNCHANGED <<namerVars, extractVars, loadVars, projectVars>>
    /\ UNCHANGED genVars
    /\ UNCHANGED hookVars

\* the await throws: catch (error) { ...; process.exit(1) }
AwaitThrows ==
    /\ cpc = "await"
    /\ promiseAll(loads) = "rejected"
    /\ cpc' = "exit1"
    /\ UNCHANGED <<inputFiles, loads, values, settled, specs, handed, allEndpoints>>
    /\ UNCHANGED <<namerVars, extractVars, loadVars, projectVars>>
    /\ UNCHANGED genVars
    /\ UNCHANGED hookVars

\* await generateSDK(specs, genOptions)
GenerateSDK ==
    /\ cpc = "sdk"
    /\ handed' = Append(handed, [renderer |-> "sdk", specs |-> specs])
    /\ cpc' = "hooks"
    /\ UNCHANGED <<inputFiles, loads, values, settled, specs, allEndpoints>>
    /\ UNCHANGED <<namerVars, extractVars, loadVars, projectVars>>
    /\ UNCHANGED genVars
    /\ UNCHANGED hookVars

\* await generateHooks(specs, genOptions)
GenerateHooks ==
    /\ cpc = "hooks"
    /\ handed' = Append(handed, [renderer |-> "hooks", specs |-> specs])
    /\ allEndpoints' = Append(allEndpoints,
                              [renderer |-> "hooks", endpoints |-> collectEndpoints(specs)])
    /\ cpc' = "markdown"
    /\ UNCHANGED <<inputFiles, loads, values, settled, specs>>
    /\ UNCHANGED <<namerVars, extractVars, loadVars, projectVars>>
    /\ UNCHANGED genVars
    /\ UNCHANGED hookVars

\* await generateMarkdown(specs, genOptions)
GenerateMarkdown ==
    /\ cpc = "markdown"
    /\ handed' = Append(handed, [renderer |-> "markdown", specs |-> specs])
    /\ allEndpoints' = Append(allEndpoints,
                              [renderer |-> "markdown", endpoints |-> collectEndpoints(specs)])
    /\ cpc' = "html"
    /\ UNCHANGED <<inputFiles, loads, values, settled, specs>>
    /\ UNCHANGED <<namerVars, extractVars, loadVars, projectVars>>
    /\ UNCHANGED genVars
    /\ UNCHANGED hookVars

\* await generateHTML(specs, genOptions)
GenerateHTML ==
    /\ cpc = "html"
    /\ handed' = Append(handed, [renderer |-> "html", specs |-> specs])
    /\ cpc' = "done"
    /\ UNCHANGED <<inputFiles, loads, values, settled, specs, allEndpoints>>
    /\ UNCHANGED <<namerVars, extractVars, loadVars, projectVars>>
    /\ UNCHANGED genVars
    /\ UNCHANGED hookVars

\* the renderer that was called throws (writing its file fails, say):
\* catch (error) { ...; process.exit(1) }
RendererThrows ==
    /\ cpc \in {"sdk", "hooks", "markdown", "html"}
    /\ handed' = Append(handed, [renderer |-> cpc, specs |-> specs])
    /\ cpc' = "exit1"
    /\ UNCHANGED <<inputFiles, loads, values, settled, specs, allEndpoints>>
    /\ UNCHANGED <<namerVars, extractVars, loadVars, projectVars>>
    /\ UNCHANGED genVars
    /\ UNCHANGED hookVars

NextRun ==
    \/ CheckFiles
    \/ CallLoads
    \/ \E i \in 1..Len(loads) : Settle(i)
    \/ AwaitReturns
    \/ AwaitThrows
    \/ GenerateSDK
    \/ GenerateHooks
    \/ GenerateMarkdown
    \/ GenerateHTML
    \/ RendererThrows

SpecRun == InitRun /\ [][NextRun]_vars

(***************************************************************************)
(* Hook generation: getSchemaFromContent, generateResponseType,            *)
(* generateParamsInterface, generateRequestBodyType and generateHook.      *)
(* A content object is an ordered list of (media type, entry); an entry    *)
(* is undefined or an object with an optional schema.  The hook text is    *)
(* kept as its parts: the declarations in front of the function, the type  *)
(* of its params argument, the response type, and the dependency list.     *)
(***************************************************************************)
Media(schema) == [kind |-> "media", schema |-> schema]

\* getSchemaFromContent(content)
getSchemaFromContent(c) ==
    IF ~c.present THEN Undefined
    ELSE LET jsonContent == IF hasKey(c.value, "application/json")
                            THEN valueAt(c.value, "application/json") ELSE Undefined
             defined == SelectSeq(c.value, LAMBDA item : item.value # Undefined)
         IN  IF jsonContent # Undefined /\ jsonContent.schema.present
             THEN jsonContent.schema.value
             ELSE IF defined = <<>> THEN Undefined
             ELSE IF defined[1].value.schema.present THEN defined[1].value.schema.value
             ELSE Undefined

generateResponseTypeUnguarded(h, response) ==
    IF response = Undefined THEN Throw("TypeError")
    ELSE IF ~truthy(getSchemaFromContent(response.content)) THEN Return(<<"any">>)
    ELSE schemaToType(h, getSchemaFromContent(response.content), 0, 1, stackLimit(h))

\* generateResponseType(response, endpointName, statusCode)
generateResponseType(h, response) ==
    IF response = Undefined THEN Return(<<"any">>)
    ELSE IF ~truthy(getSchemaFromContent(response.content)) THEN Return(<<"any">>)
    ELSE schemaToType(h, getSchemaFromContent(response.content), 0, 1, stackLimit(h))

\* the keys that are canonical array indices: decimal digits, no leading zero
Digits == <<"0", "1", "2", "3", "4", "5", "6", "7", "8", "9">>
isIndex(key) ==
    /\ key # <<>>
    /\ \A i \in 1..Len(key) : IsIn(key[i], Digits)
    /\ (Len(key) = 1 \/ key[1] # "0")
RECURSIVE numberOf(_)
numberOf(key) ==
    IF key = <<>> THEN 0
    ELSE 10 * numberOf(SubSeq(key, 1, Len(key) - 1)) + (IndexIn(key[Len(key)], Digits) - 1)

\* Object.keys(object): the index keys in ascending order, then the other
\* keys in the order they were added
objectKeys(entries) ==
    LET keys == [i \in 1..Len(entries) |-> entries[i].key]
    IN  SortSeq(SelectSeq(keys, isIndex), LAMBDA a, b : numberOf(a) < numberOf(b))
        \o SelectSeq(keys, LAMBDA k : ~isIndex(k))

\* Object.keys(responses).find(s => s.startsWith('2')) || '200'
successStatusOf(responses) ==
    LET twos == SelectSeq(objectKeys(responses), LAMBDA s : Len(s) > 0 /\ s[1] = "2")
    IN  IF twos = <<>> THEN <<"2", "0", "0">> ELSE twos[1]

\* responses[successStatus]
successResponseOf(responses) ==
    IF hasKey(responses, successStatusOf(responses))
    THEN valueAt(responses, successStatusOf(responses)) ELSE Undefined

\* schemaToType(p.schema) of a parameter
paramType(h, p) ==
    schemaToType(h, IF p.schema.present THEN p.schema.value ELSE Undefined, 0, 1, stackLimit(h))

\* generateParamsInterface(pathParams, queryParams, endpointName)
generateParamsInterface(h, pathParams, queryParams, endpointName) ==
    LET pathTypes == FirstThrown([i \in 1..Len(pathParams) |-> paramType(h, pathParams[i])])
        queryTypes == FirstThrown([i \in 1..Len(queryParams) |-> paramType(h, queryParams[i])])
        pathProps ==
            joinWith([i \in 1..Len(pathParams) |->
                         <<"  ", pathParams[i].name, ": ">> \o pathTypes.value[i] \o <<";">>],
                     <<"\n">>)
        queryProps ==
            joinWith([i \in 1..Len(queryParams) |->
                         <<"  ", queryParams[i].name>>
                         \o (IF queryParams[i].required = Some(TRUE) THEN <<>> ELSE <<"?">>)
                         \o <<": ">> \o queryTypes.value[i] \o <<";">>],
                     <<"\n">>)
        pathInterface ==
            <<"export interface ", endpointName \o "PathParams", " {", "\n">>
            \o pathProps \o <<"\n", "}">>
        queryInterface ==
            <<"export interface ", endpointName \o "QueryParams", " {", "\n">>
            \o queryProps \o <<"\n", "}">>
    IN  IF Len(pathParams) > 0 /\ pathTypes.threw # "none" THEN Throw(pathTypes.threw)
        ELSE IF Len(queryParams) > 0 /\ queryTypes.threw # "none" THEN Throw(queryTypes.threw)
        ELSE Return(joinWith((IF Len(pathParams) > 0 THEN <<pathInterface>> ELSE <<>>)
                             \o (IF Len(queryParams) > 0 THEN <<queryInterface>> ELSE <<>>),
                             <<"\n", "\n">>))

\* generateRequestBodyType(requestBody, endpointName)
generateRequestBodyType(h, requestBody, endpointName) ==
    IF requestBody = Undefined THEN Return(<<>>)
    ELSE IF ~truthy(getSchemaFromContent(requestBody.content)) THEN Return(<<>>)
    ELSE LET type == schemaToType(h, getSchemaFromContent(requestBody.content), 0,
                                  1, stackLimit(h))
         IN  IF type.threw # "none" THEN type
             ELSE IF \E i \in 1..Len(type.value) : type.value[i] = "\n"
             THEN Return(<<"export interface ", endpointName \o "RequestBody", " ">>
                         \o type.value \o <<"\n">>)
             ELSE Return(<<"export type ", endpointName \o "RequestBody", " = ">>
                         \o type.value \o <<";", "\n">>)

\* ['POST', 'PUT', 'DELETE', 'PATCH'].includes(method)
isMutation(meth) ==
    meth \in {toUpperCase(POST), toUpperCase(PUT), toUpperCase(DELETE), toUpperCase(PATCH)}

\* generateHook(endpoint, axiosInstance)
generateHook(h, e) ==
    LET functionName == implode(e.operationId)
        hookName == "use" \o implode(capitalize(e.operationId))
        pathParamsInterface ==
            IF Len(e.pathParams) > 0 THEN functionName \o "PathParams" ELSE "never"
        queryParamsInterface ==
            IF Len(e.queryParams) > 0 THEN functionName \o "QueryParams" ELSE "never"
        requestBodyType ==
            IF e.requestBody # Undefined THEN functionName \o "RequestBody" ELSE "never"
        responseType == generateResponseType(h, successResponseOf(e.responses))
        pathField ==
            <<"    path">>
            \o (IF Len(e.pathParams) > 0 THEN <<": ", pathParamsInterface>> ELSE <<"?: never">>)
            \o <<";", "\n">>
        queryField ==
            <<"    query">>
            \o (IF Len(e.queryParams) > 0 THEN <<"?: ", queryParamsInterface>>
                ELSE <<"?: never">>)
            \o <<";", "\n">>
        bodyField ==
            <<"    body">>
            \o (IF e.requestBody # Undefined THEN <<": ", requestBodyType>> ELSE <<"?: never">>)
            \o <<";", "\n">>
        interfaces == generateParamsInterface(h, e.pathParams, e.queryParams, functionName)
        bodyDeclaration ==
            IF e.requestBody # Undefined
            THEN generateRequestBodyType(h, e.requestBody, functionName) ELSE Return(<<>>)
        pathDeps == IF Len(e.pathParams) > 0 THEN <<"params.path">> ELSE <<>>
        queryDeps == IF Len(e.queryParams) > 0 THEN <<"params.query">> ELSE <<>>
        bodyDeps == IF e.requestBody # Undefined THEN <<"params.body">> ELSE <<>>
    IN  IF responseType.threw # "none" THEN responseType
        ELSE IF interfaces.threw # "none" THEN interfaces
        ELSE IF isMutation(e.method)
        THEN IF bodyDeclaration.threw # "none" THEN bodyDeclaration
             ELSE Return([kind |-> "mutation",
                          hookName |-> hookName,
                          declarations |->
                              interfaces.value \o <<"\n", "\n">> \o bodyDeclaration.value,
                          paramsType |->
                              <<"{", "\n">> \o pathField \o queryField \o bodyField \o <<"  }">>,
                          responseType |-> responseType.value,
                          deps |-> pathDeps \o queryDeps \o bodyDeps])
        ELSE Return([kind |-> "query",
                     hookName |-> hookName,
                     declarations |-> interfaces.value,
                     paramsType |->
                         <<"{", "\n">> \o pathField \o queryField
                         \o <<"    enabled?: boolean;", "\n", "  }">>,
                     responseType |-> responseType.value,
                     deps |-> pathDeps \o queryDeps])

(***************************************************************************)
(* The content lookup run: one call of getSchemaFromContent.               *)
(***************************************************************************)
\* content objects: absent, or up to MaxMedia entries with distinct media
\* types, each undefined, without schema, or with one of two schemas
Contents ==
    {Absent}
    \cup { Some(t) :
             t \in UNION { { t \in [1..n ->
                                      [key : {"application/json", "text/plain",
                                              "application/xml"},
                                       value : {Undefined, Media(Absent),
                                                Media(Some(Ptr(1))), Media(Some(Ptr(2)))}]] :
                              \A i, j \in 1..n : i # j => t[i].key # t[j].key } :
                           n \in 0..MaxMedia } }

InitContent ==
    /\ content \in Contents
    /\ found = Undefined
    /\ gpc = "call"
    /\ calls = <<>>
    /\ endpoint = NoEndpoint
    /\ hook = Return(<<>>)
    /\ hpc = "idle"
    /\ IdleNamer
    /\ IdleExtract
    /\ IdleLoad
    /\ IdleProject
    /\ IdleRun
    /\ IdleHook

GetSchema ==
    /\ gpc = "call"
    /\ found' = getSchemaFromContent(content)
    /\ gpc' = "returned"
    /\ UNCHANGED <<calls, content, endpoint, hook, hpc>>
    /\ UNCHANGED <<namerVars, extractVars, loadVars, projectVars, runVars>>
    /\ UNCHANGED hookVars

NextContent == GetSchema

SpecContent == InitContent /\ [][NextContent]_vars

(***************************************************************************)
(* The hook generation run: one call of generateHook on an endpoint.       *)
(***************************************************************************)
\* the schemas of the endpoint: a string, a record, an integer, and an
\* object open to additional properties
GenHeap ==
    << StringSchema,
       [EmptySchema EXCEPT !.type = Some("object"),
                           !.properties = Some(<<[key |-> "id", value |-> Ptr(3)]>>),
                           !.required = Some(<<"id">>)],
       IntegerSchema,
       [EmptySchema EXCEPT !.type = Some("object"),
                           !.additionalProperties = Some(Bool(TRUE))] >>

HookParam(n, loc, required, schema) ==
    [name |-> n, in |-> loc, required |-> required, schema |-> schema]

JsonOf(schema) == Some(<<[key |-> "application/json", value |-> Media(schema)]>>)

\* request bodies: none, or one with these contents
BodyContents ==
    { Absent, Some(<<>>), JsonOf(Absent), JsonOf(Some(Ptr(2))), JsonOf(Some(Ptr(1))),
      Some(<<[key |-> "text/plain", value |-> Media(Some(Ptr(1)))]>>) }

Status(n) == CASE n = 200 -> <<"2", "0", "0">>
               [] n = 201 -> <<"2", "0", "1">>
               [] n = 204 -> <<"2", "0", "4">>
               [] n = 404 -> <<"4", "0", "4">>

ResponseOf(c) == [content |-> c]

\* response tables, in the order the document declares the status codes
ResponseTables ==
    { <<>>,
      <<[key |-> Status(404), value |-> ResponseOf(Absent)]>>,
      <<[key |-> Status(200), value |-> ResponseOf(JsonOf(Some(Ptr(2))))]>>,
      <<[key |-> Status(201), value |-> ResponseOf(Absent)],
        [key |-> Status(200), value |-> ResponseOf(JsonOf(Some(Ptr(1))))]>>,
      <<[key |-> <<"d", "e", "f", "a", "u", "l", "t">>, value |-> ResponseOf(JsonOf(Some(Ptr(1))))],
        [key |-> Status(204), value |-> ResponseOf(Absent)]>>,
      <<[key |-> Status(200), value |-> ResponseOf(JsonOf(Some(Ptr(4))))]>>,
      <<[key |-> <<"2", "X", "X">>, value |-> ResponseOf(JsonOf(Absent))],
        [key |-> Status(404), value |-> ResponseOf(JsonOf(Some(Ptr(2))))]>>,
      <<[key |-> Status(404), value |-> ResponseOf(JsonOf(Some(Ptr(2))))],
        [key |-> Status(200), value |-> ResponseOf(Some(<<>>))]>> }

HookEndpoints ==
    { [path |-> UsersIdPath, method |-> m, operationId |-> id,
       pathParams |-> pp, queryParams |-> qp, requestBody |-> b, responses |-> r] :
        m \in UpperMethods,
        id \in {ListAll, GET},
        pp \in {<<>>, <<HookParam("id", "path", Some(TRUE), Some(Ptr(3)))>>},
        qp \in {<<>>, <<HookParam("q", "query", Some(TRUE), Some(Ptr(1))),
                        HookParam("a", "query", Absent, Absent)>>},
        b \in {Undefined} \cup {[content |-> c] : c \in BodyContents},
        r \in ResponseTables }

InitGenerate ==
    /\ endpoint \in HookEndpoints
    /\ hook = Return(<<>>)
    /\ hpc = "call"
    /\ calls = <<>>
    /\ content = Absent
    /\ found = Undefined
    /\ gpc = "idle"
    /\ IdleNamer
    /\ IdleExtract
    /\ IdleLoad
    /\ IdleProject
    /\ IdleRun
    /\ IdleHook

GenerateHook ==
    /\ hpc = "call"
    /\ hook' = generateHook(GenHeap, endpoint)
    /\ hpc' = "generated"
    /\ UNCHANGED <<calls, content, found, gpc, endpoint>>
    /\ UNCHANGED <<namerVars, extractVars, loadVars, projectVars, runVars>>
    /\ UNCHANGED hookVars

NextGenerate == GenerateHook

SpecGenerate == InitGenerate /\ [][NextGenerate]_vars

(***************************************************************************)
(* Repeated calls: generateOperationId is called again and again, with     *)
(* extractions of documents in between.  calls is the record of what was   *)
(* called and what it returned.                                            *)
(***************************************************************************)
NamerCall(p, m, id) == [kind |-> "call", path |-> p, method |-> m, operationId |-> id]
Extraction == [kind |-> "extraction", path |-> <<>>, method |-> <<>>, operationId |-> <<>>]

InitCalls ==
    /\ calls = <<>>
    /\ content = Absent
    /\ found = Undefined
    /\ gpc = "idle"
    /\ endpoint = NoEndpoint
    /\ hook = Return(<<>>)
    /\ hpc = "idle"
    /\ IdleNamer
    /\ IdleExtract
    /\ IdleLoad
    /\ IdleProject
    /\ IdleRun
    /\ IdleHook

CallNamerAgain ==
    /\ Len(calls) < MaxCalls
    /\ \E p \in PathKeys, m \in {toUpperCase(GET), toUpperCase(POST)} :
          /\ path' = p
          /\ method' = m
          /\ ident' = generateOperationId(p, m)
          /\ calls' = Append(calls, NamerCall(p, m, generateOperationId(p, m)))
    /\ npc' = "returned"
    /\ UNCHANGED <<content, found, gpc, endpoint, hook, hpc>>
    /\ UNCHANGED <<extractVars, loadVars, projectVars, runVars>>
    /\ UNCHANGED hookVars

ExtractBetween ==
    /\ Len(calls) < MaxCalls
    /\ \E d \in {ItemDocument, UsersDocument} :
          /\ spec' = d
          /\ endpoints' = extractEndpoints(d)
    /\ xpc' = "extracted"
    /\ calls' = Append(calls, Extraction)
    /\ UNCHANGED <<content, found, gpc, endpoint, hook, hpc>>
    /\ UNCHANGED <<namerVars, loadVars, projectVars, runVars>>
    /\ UNCHANGED hookVars

NextCalls == CallNamerAgain \/ ExtractBetween

SpecCalls == InitCalls /\ [][NextCalls]_vars

(***************************************************************************)
(* The generated hook in use: a component mounts one hook that generateHook *)
(* produced, renders again with other params, calls refetch() or mutate(),  *)
(* and the requests it issued are answered in any order.  Request i is     *)
(* answered with response i or fails with error i.                         *)
(***************************************************************************)
Request(cause) == [cause |-> cause, outcome |-> "pending"]
EffectRun(cause, en, request) == [cause |-> cause, enabled |-> en, request |-> request]

\* the effect's guard with a bug: it takes a missing enabled for false
effectSkippedUnlessEnabled(en) == en # Some(TRUE)

\* if (params.enabled === false) return;
effectSkipped(en) == en = Some(FALSE)

Pending == {i \in 1..Len(requests) : requests[i].outcome = "pending"}

\* the hooks a component is mounted with: one per verb, with and without
\* path parameters
MountedEndpoints ==
    { e \in HookEndpoints :
        /\ e.operationId = ListAll
        /\ e.queryParams = <<>>
        /\ e.requestBody = Undefined
        /\ e.responses = <<[key |-> Status(200), value |-> ResponseOf(JsonOf(Some(Ptr(2))))]>> }

EnabledValues == {Absent, Some(TRUE), Some(FALSE)}

InitHook ==
    /\ endpoint \in MountedEndpoints
    /\ hook = generateHook(GenHeap, endpoint)
    /\ hpc = "generated"
    /\ enabled \in (IF isMutation(endpoint.method) THEN {Absent} ELSE EnabledValues)
    /\ data = 0
    /\ loading = FALSE
    /\ error = 0
    /\ requests = <<>>
    /\ arrivals = <<>>
    /\ effects = <<>>
    /\ rpc = "unmounted"
    /\ calls = <<>>
    /\ content = Absent
    /\ found = Undefined
    /\ gpc = "idle"
    /\ IdleNamer
    /\ IdleExtract
    /\ IdleLoad
    /\ IdleProject
    /\ IdleRun

\* one run of the callback of React.useEffect in the query hook
RunEffect(cause, en) ==
    IF effectSkipped(en)
    THEN /\ effects' = Append(effects, EffectRun(cause, en, 0))
         /\ UNCHANGED <<data, loading, error, requests, arrivals>>
    ELSE /\ loading' = TRUE
         /\ error' = 0
         /\ requests' = Append(requests, Request(cause))
         /\ effects' = Append(effects, EffectRun(cause, en, Len(requests) + 1))
         /\ UNCHANGED <<data, arrivals>>

\* the first render: the state starts as null, false, null, and the query
\* hook's effect runs
Mount ==
    /\ rpc = "unmounted"
    /\ rpc' = "mounted"
    /\ IF hook.value.kind = "query"
       THEN RunEffect("mount", enabled)
       ELSE UNCHANGED <<data, loading, error, requests, arrivals, effects>>
    /\ UNCHANGED enabled
    /\ UNCHANGED <<calls, content, found, gpc, endpoint, hook, hpc>>
    /\ UNCHANGED <<namerVars, extractVars, loadVars, projectVars, runVars>>

\* a render of the query hook with another params.path or params.query: a
\* dependency changed, so the effect runs again
ChangeDeps ==
    /\ rpc = "mounted"
    /\ hook.value.kind = "query"
    /\ hook.value.deps # <<>>
    /\ Len(requests) < MaxRequests
    /\ Len(effects) < MaxRequests
    /\ \E en \in EnabledValues :
          /\ enabled' = en
          /\ RunEffect("deps", en)
    /\ UNCHANGED rpc
    /\ UNCHANGED <<calls, content, found, gpc, endpoint, hook, hpc>>
    /\ UNCHANGED <<namerVars, extractVars, loadVars, projectVars, runVars>>

\* a render of the query hook with another params.enabled and the same
\* dependencies: enabled is not in the dependency list, the effect does not run
SetEnabled ==
    /\ rpc = "mounted"
    /\ hook.value.kind = "query"
    /\ \E en \in EnabledValues \ {enabled} : enabled' = en
    /\ UNCHANGED <<data, loading, error, requests, arrivals, effects, rpc>>
    /\ UNCHANGED <<calls, content, found, gpc, endpoint, hook, hpc>>
    /\ UNCHANGED <<namerVars, extractVars, loadVars, projectVars, runVars>>

\* refetch() of the query hook
Refetch ==
    /\ rpc = "mounted"
    /\ hook.value.kind = "query"
    /\ Len(requests) < MaxRequests
    /\ loading' = TRUE
    /\ requests' = Append(requests, Request("refetch"))
    /\ UNCHANGED <<enabled, data, error, arrivals, effects, rpc>>
    /\ UNCHANGED <<calls, content, found, gpc, endpoint, hook, hpc>>
    /\ UNCHANGED <<namerVars, extractVars, loadVars, projectVars, runVars>>

\* mutate() of the mutation hook, up to its await
Mutate ==
    /\ rpc = "mounted"
    /\ hook.value.kind = "mutation"
    /\ Len(requests) < MaxRequests
    /\ loading' = TRUE
    /\ error' = 0
    /\ requests' = Append(requests, Request("mutate"))
    /\ UNCHANGED <<enabled, data, arrivals, effects, rpc>>
    /\ UNCHANGED <<calls, content, found, gpc, endpoint, hook, hpc>>
    /\ UNCHANGED <<namerVars, extractVars, loadVars, projectVars, runVars>>

\* what the handlers of a settled request do to the state: setData and
\* setLoading(false), or setError and setLoading(false)
Settles(i, ok) ==
    /\ requests' = [requests EXCEPT ![i].outcome = IF ok THEN "ok" ELSE "failed"]
    /\ arrivals' = Append(arrivals, i)
    /\ data' = IF ok THEN i ELSE data
    /\ error' = IF ok THEN error ELSE i
    /\ loading' = FALSE

\* a request of the query hook is answered: its .then or its .catch runs
QuerySettles(i) ==
    /\ hook.value.kind = "query"
    /\ i \in Pending
    /\ \E ok \in BOOLEAN : Settles(i, ok)
    /\ UNCHANGED <<enabled, effects, rpc>>
    /\ UNCHANGED <<calls, content, found, gpc, endpoint, hook, hpc>>
    /\ UNCHANGED <<namerVars, extractVars, loadVars, projectVars, runVars>>

\* a request of the mutation hook is answered: mutate() goes on after its
\* await, through try or catch, then finally
MutationSettles(i) ==
    /\ hook.value.kind = "mutation"
    /\ i \in Pending
    /\ \E ok \in BOOLEAN : Settles(i, ok)
    /\ UNCHANGED <<enabled, effects, rpc>>
    /\ UNCHANGED <<calls, content, found, gpc, endpoint, hook, hpc>>
    /\ UNCHANGED <<namerVars, extractVars, loadVars, projectVars, runVars>>

NextHook ==
    \/ Mount
    \/ ChangeDeps
    \/ SetEnabled
    \/ Refetch
    \/ Mutate
    \/ \E i \in 1..MaxRequests : QuerySettles(i)
    \/ \E i \in 1..MaxRequests : MutationSettles(i)

SpecHook == InitHook /\ [][NextHook]_vars

(***************************************************************************)
(* Claims about the Operation Namer (SpecNamer).                           *)
(***************************************************************************)
Segments == split(path, "/")
Chars(s) == {s[i] : i \in 1..Len(s)}

\* the characters of p outside every {placeholder}
LiteralChars(p) ==
    { i \in 1..Len(p) :
        /\ p[i] \notin {"{", "}"}
        /\ Cardinality({j \in 1..i : p[j] = "{"}) = Cardinality({j \in 1..i : p[j] = "}"}) }

\* a segment made of placeholders only
OnlyPlaceholder(p) == p # <<>> /\ LiteralChars(p) = {}

\* the segments that survive when the empty and the placeholder-only ones go
SurvivorsNotOnlyPlaceholder ==
    SelectSeq(Segments, LAMBDA p : p # <<>> /\ ~OnlyPlaceholder(p))

\* the segments that survive when the empty ones and those beginning with { go
SurvivorsNoLeadingBrace ==
    SelectSeq(Segments, LAMBDA p : p # <<>> /\ p[1] # "{")

\* each dash- or underscore-separated token capitalised, separators removed
CamelCase(p) ==
    LET tokens == split(dashToUnderscore(stripBraces(p)), "_")
    IN  join([i \in 1..Len(tokens) |-> capitalize(tokens[i])])

\* braces removed, each dash turned into an underscore, first character
\* upper-cased, everything else as it is
UnderscoreForm(p) ==
    LET q == stripBraces(p)
    IN  [i \in 1..Len(q) |->
            LET c == IF q[i] = "-" THEN "_" ELSE q[i]
            IN  IF i = 1 THEN toUpperCaseChar(c) ELSE c]

\* C6 as stated: the identifier is the lower-cased verb followed by the
\* camel-cased surviving segments in path order, and holds neither - nor _
C6_CamelCaseSegments ==
    (npc = "returned" /\ SurvivorsNoLeadingBrace # <<>>) =>
        /\ ident = toLowerCase(method)
                     \o join([i \in 1..Len(SurvivorsNoLeadingBrace) |->
                                 CamelCase(SurvivorsNoLeadingBrace[i])])
        /\ Chars(ident) \cap {"-", "_"} = {}

\* C6 amended: the identifier is the lower-cased verb followed, in path order,
\* by each surviving segment with its braces removed, each dash replaced by an
\* underscore and only its first character upper-cased; it holds no dash
C6_UnderscoreSegments ==
    (npc = "returned" /\ SurvivorsNoLeadingBrace # <<>>) =>
        /\ ident = toLowerCase(method)
                     \o join([i \in 1..Len(SurvivorsNoLeadingBrace) |->
                                 UnderscoreForm(SurvivorsNoLeadingBrace[i])])
        /\ "-" \notin Chars(ident)

\* C6 witness: the namer has returned for /a-b, whose segment a-b survives,
\* and the identifier holds the underscore the dash became
C6_Witness ==
    /\ npc = "returned"
    /\ path = <<"/", "a", "-", "b">>
    /\ SurvivorsNoLeadingBrace = << <<"a", "-", "b">> >>
    /\ "_" \in Chars(ident)

\* C7 as stated: with the empty and the placeholder-only segments dropped, the
\* result is <verb>Root exactly when nothing survives, and the verb followed
\* by the transformed survivors otherwise
C7_RootIffOnlyPlaceholders ==
    npc = "returned" =>
        ident = toLowerCase(method)
                  \o (IF SurvivorsNotOnlyPlaceholder = <<>> THEN Root
                      ELSE join([i \in 1..Len(SurvivorsNotOnlyPlaceholder) |->
                                   transformSegment(SurvivorsNotOnlyPlaceholder[i])]))

\* C7 amended: with the empty segments and every segment that begins with {
\* dropped, the result is <verb>Root exactly when nothing survives, and the
\* verb followed by the transformed survivors otherwise
C7_RootIffNoLeadingLiteral ==
    npc = "returned" =>
        ident = toLowerCase(method)
                  \o (IF SurvivorsNoLeadingBrace = <<>> THEN Root
                      ELSE join([i \in 1..Len(SurvivorsNoLeadingBrace) |->
                                   transformSegment(SurvivorsNoLeadingBrace[i])]))

\* C7 witness: the namer has returned <verb>Root for /{a}/{b}
C7_Witness ==
    /\ npc = "returned"
    /\ path = <<"/", "{", "a", "}", "/", "{", "b", "}">>
    /\ ident = toLowerCase(method) \o Root

(***************************************************************************)
(* Claims about extractEndpoints (SpecExtract).                            *)
(***************************************************************************)
VerbPriority ==
    << <<"G", "E", "T">>, <<"P", "O", "S", "T">>, <<"P", "U", "T">>,
       <<"D", "E", "L", "E", "T", "E">>, <<"P", "A", "T", "C", "H">> >>

PriorityOf(m) == CHOOSE i \in 1..Len(VerbPriority) : VerbPriority[i] = m
PositionOf(pathKey) == CHOOSE i \in 1..Len(spec.paths) : spec.paths[i].key = pathKey

\* the path item and the operation an endpoint was extracted from
ItemOf(e) == spec.paths[PositionOf(e.path)].value
DeclaredOperation(e) == valueAt(ItemOf(e).verbs, toLowerCase(e.method))

\* the verb keys of a path item, in the order the document declares them
DeclaredVerbs(item) == [i \in 1..Len(item.verbs) |-> toUpperCase(item.verbs[i].key)]

\* C1: the descriptors come grouped by path in the path table's order and,
\* within a path, in the order GET, POST, PUT, DELETE, PATCH
C1_FixedVerbOrder ==
    xpc = "extracted" =>
        \A i, j \in 1..Len(endpoints) :
            i < j =>
                \/ PositionOf(endpoints[i].path) < PositionOf(endpoints[j].path)
                \/ /\ endpoints[i].path = endpoints[j].path
                   /\ PriorityOf(endpoints[i].method) < PriorityOf(endpoints[j].method)

\* C1 witness: a second path item declares its verbs in reverse order, and
\* its five descriptors follow those of the first path
C1_Witness ==
    /\ xpc = "extracted"
    /\ Len(spec.paths) = 2
    /\ Len(spec.paths[1].value.verbs) = 2
    /\ DeclaredVerbs(spec.paths[2].value) =
           <<VerbPriority[5], VerbPriority[4], VerbPriority[3], VerbPriority[2], VerbPriority[1]>>
    /\ Len(endpoints) = 7

GetUsersId == <<"g", "e", "t", "U", "s", "e", "r", "s", "I", "d">>
GetUsers == <<"g", "e", "t", "U", "s", "e", "r", "s">>

\* a descriptor of GET /users/{id} whose operation declares no identifier
IsGetUsersIdUnnamed(e) ==
    /\ e.path = UsersIdPath
    /\ e.method = VerbPriority[1]
    /\ ~DeclaredOperation(e).operationId.present

\* C5 as stated: GET /users/{id} without a declared identifier is extracted
\* with the identifier getUsersId
C5_GetUsersId ==
    xpc = "extracted" =>
        \A i \in 1..Len(endpoints) :
            IsGetUsersIdUnnamed(endpoints[i]) => endpoints[i].operationId = GetUsersId

\* C5 amended: GET /users/{id} without a declared identifier is extracted
\* with the identifier getUsers (the placeholder segment is dropped)
C5_GetUsers ==
    xpc = "extracted" =>
        \A i \in 1..Len(endpoints) :
            IsGetUsersIdUnnamed(endpoints[i]) => endpoints[i].operationId = GetUsers

\* C5 witness: such a descriptor has been extracted
C5_Witness ==
    /\ xpc = "extracted"
    /\ \E i \in 1..Len(endpoints) : IsGetUsersIdUnnamed(endpoints[i])

\* how many descriptors carry this path and verb
CountOf(pathKey, m) ==
    Cardinality({i \in 1..Len(endpoints) :
                    endpoints[i].path = pathKey /\ endpoints[i].method = m})

DeclaredPairs ==
    { <<i, k>> \in (1..Len(spec.paths)) \X (1..Len(VerbPriority)) :
        \E n \in 1..Len(spec.paths[i].value.verbs) :
            toUpperCase(spec.paths[i].value.verbs[n].key) = VerbPriority[k] }

\* C8: one descriptor for each (path, verb) the document declares an operation
\* for, none for any other pair, whatever the identifiers are
C8_OnePerDeclaredOperation ==
    xpc = "extracted" =>
        /\ \A i \in 1..Len(spec.paths), k \in 1..Len(VerbPriority) :
              CountOf(spec.paths[i].key, VerbPriority[k]) =
                  IF <<i, k>> \in DeclaredPairs THEN 1 ELSE 0
        /\ Len(endpoints) = Cardinality(DeclaredPairs)

\* C8 witness: the first path item declares no operation, the second several,
\* and two of the descriptors carry the same identifier
C8_Witness ==
    /\ xpc = "extracted"
    /\ Len(spec.paths) = 2
    /\ spec.paths[1].value.verbs = <<>>
    /\ Len(endpoints) = 5
    /\ \E i, j \in 1..Len(endpoints) :
          i # j /\ endpoints[i].operationId = endpoints[j].operationId

\* the path-level parameters followed by the operation-level ones
DeclaredParams(e) ==
    (IF ItemOf(e).parameters.present THEN ItemOf(e).parameters.value ELSE <<>>)
    \o (IF DeclaredOperation(e).parameters.present
        THEN DeclaredOperation(e).parameters.value ELSE <<>>)

\* s is the sub-sequence of l made of the elements located at loc
IsSubSequenceAt(s, l, loc) ==
    \E f \in [1..Len(s) -> 1..Len(l)] :
        /\ \A a, b \in 1..Len(s) : a < b => f[a] < f[b]
        /\ \A a \in 1..Len(s) : s[a] = l[f[a]]
        /\ {f[a] : a \in 1..Len(s)} = {n \in 1..Len(l) : l[n].in = loc}

\* C9: pathParams and queryParams are the sub-sequences of the path-level
\* then operation-level parameters located in path and in query; header and
\* cookie parameters are in neither
C9_ParamsSplitByLocation ==
    xpc = "extracted" =>
        \A i \in 1..Len(endpoints) :
            LET e == endpoints[i]
            IN  /\ IsSubSequenceAt(e.pathParams, DeclaredParams(e), "path")
                /\ IsSubSequenceAt(e.queryParams, DeclaredParams(e), "query")
                /\ \A n \in 1..Len(e.pathParams) : e.pathParams[n].in = "path"
                /\ \A n \in 1..Len(e.queryParams) : e.queryParams[n].in = "query"

\* C9 witness: a descriptor whose path item and operation both declare
\* path, query and dropped parameters
C9_Witness ==
    /\ xpc = "extracted"
    /\ \E i \in 1..Len(endpoints) :
          /\ ItemOf(endpoints[i]).parameters = Some(PathItemParams)
          /\ DeclaredOperation(endpoints[i]).parameters = Some(OperationParams)
          /\ Len(endpoints[i].pathParams) = 2
          /\ Len(endpoints[i].queryParams) = 2

\* C10: the identifier is the declared one when that is present and not
\* empty, and the namer's result for (path, verb) otherwise
C10_DeclaredIdentifierWins ==
    xpc = "extracted" =>
        \A i \in 1..Len(endpoints) :
            LET e == endpoints[i]
                declared == DeclaredOperation(e).operationId
            IN  IF declared.present /\ Len(declared.value) > 0
                THEN e.operationId = declared.value
                ELSE e.operationId = generateOperationId(e.path, e.method)

\* C10 witness: one descriptor carries a declared identifier that the namer
\* would not have produced, one has none declared, one an empty one
C10_Witness ==
    /\ xpc = "extracted"
    /\ \E i, j, k \in 1..Len(endpoints) :
          /\ DeclaredOperation(endpoints[i]).operationId = Some(ListAll)
          /\ endpoints[i].operationId = ListAll
          /\ ListAll # generateOperationId(endpoints[i].path, endpoints[i].method)
          /\ DeclaredOperation(endpoints[j]).operationId = Absent
          /\ DeclaredOperation(endpoints[k]).operationId = Some(<<>>)
          /\ endpoints[k].operationId = generateOperationId(endpoints[k].path, endpoints[k].method)

(***************************************************************************)
(* Claims about schemaToType on its own (SpecProject).                     *)
(***************************************************************************)
\* C4: schemaToType returns a type expression for every schema node and
\* never throws
C4_NeverAborts ==
    ppc = "projected" => result.threw = "none"

(***************************************************************************)
(* Claims about loading and then projecting (SpecLoad).                    *)
(***************************************************************************)
\* the heap nodes a node points to, a {$ref} pointing to its target
PointedBy(document, n) ==
    LET node == document.heap[n]
        ofOpt(opt) == IF opt.present /\ opt.value.kind = "schema"
                      THEN {opt.value.node} ELSE {}
        ofList(opt) == IF opt.present
                       THEN {opt.value[i].node : i \in 1..Len(opt.value)} ELSE {}
    IN  ofOpt(node.items) \cup ofOpt(node.additionalProperties)
        \cup (IF node.properties.present
              THEN {node.properties.value[i].value.node :
                       i \in 1..Len(node.properties.value)}
              ELSE {})
        \cup ofList(node.allOf) \cup ofList(node.oneOf) \cup ofList(node.anyOf)
        \cup (IF node.ref.present /\ pointerFound(document, node.ref.value)
              THEN {pointerTarget(document, node.ref.value).node} ELSE {})

RECURSIVE ReachedFrom(_, _, _)
ReachedFrom(document, nodes, steps) ==
    IF steps = 0 THEN nodes
    ELSE ReachedFrom(document,
                     nodes \cup UNION {PointedBy(document, n) : n \in nodes},
                     steps - 1)

\* a component schema of the document contains itself through references
ContainsItself(document) ==
    \E i \in 1..Len(document.components) :
        LET n == document.components[i].value.node
        IN  n \in ReachedFrom(document, PointedBy(document, n), Len(document.heap))

\* C2: when a component schema contains itself through references, loading
\* the document and projecting a schema of it ends: schemaToType does not
\* recurse until the call stack is exhausted
C2_ProjectionTerminates ==
    (ppc = "projected" /\ ContainsItself(parsed)) => result.threw # "RangeError"

\* the text holds Array<name>
HasArrayOf(text, name) ==
    \E i \in 1..(Len(text) - 2) :
        text[i] = "Array<" /\ text[i + 1] = name /\ text[i + 2] = ">"

\* C3: after loading, a position written as a reference to a component
\* projects to the component's name, the same schema written inline projects
\* to an inline literal type, and the children of Node are an Array<Node>
C3_ReferenceRendersAsName ==
    ppc = "projected" =>
        LET written == parsed.heap[parsed.response.node]
        IN  /\ (position = "response" /\ written.ref.present) =>
                  result = Return(<<implode(getRefTypeName(written.ref.value))>>)
            /\ (position = "response" /\ written = UserSchema) =>
                  (result.threw = "none" /\ result.value[1] = "{")
            /\ (position = "Node" /\ parsed.heap[5] = RefSchema(NodeName)) =>
                  (result.threw = "none" /\ HasArrayOf(result.value, "Node"))

\* without a schema that contains itself the projection of a loaded document
\* returns
AcyclicProjectionReturns ==
    (ppc = "projected" /\ ~ContainsItself(parsed)) => result.threw = "none"

\* no {$ref} is left in what loadOpenAPISpec returns
NoRefAfterLoad ==
    lpc = "resolved" =>
        \A n \in ReachedFrom(resolved,
                             {resolved.components[i].value.node :
                                 i \in 1..Len(resolved.components)}
                             \cup {resolved.response.node},
                             Len(resolved.heap)) :
            ~resolved.heap[n].ref.present

(***************************************************************************)
(* Claims about the shapes schemaToType projects (SpecProject).            *)
(***************************************************************************)
Projected == ppc = "projected"
\* the node schemaToType was called on
Probe == heap[1]

\* the characters of ref after its last slash
AfterLastSlash(ref) ==
    LET slashes == {i \in 1..Len(ref) : ref[i] = "/"}
        last == IF slashes = {} THEN 0
                ELSE CHOOSE i \in slashes : \A j \in slashes : j <= i
    IN  SubSeq(ref, last + 1, Len(ref))

\* the heap nodes the fields of a node point to
ChildrenOf(node) ==
    LET ofValue(opt) ==
            IF opt.present /\ opt.value.kind = "schema" THEN {opt.value.node} ELSE {}
        ofList(opt) ==
            IF opt.present THEN {opt.value[i].node : i \in 1..Len(opt.value)} ELSE {}
    IN  ofValue(node.items) \cup ofValue(node.additionalProperties)
        \cup (IF node.properties.present
              THEN {node.properties.value[i].value.node :
                       i \in 1..Len(node.properties.value)}
              ELSE {})
        \cup ofList(node.allOf) \cup ofList(node.oneOf) \cup ofList(node.anyOf)

NameOf(node) == implode(AfterLastSlash(node.ref.value))

\* C11: a node carrying $ref projects to exactly the last /-separated
\* segment of its reference string, whatever other keys it carries and
\* wherever it stands: as the node schemaToType is called on, as a node
\* reached at any indentation and call depth, and as the item schema of an
\* array, where the array projects to Array<name>
C11_ReferenceIsLastSegment ==
    Projected =>
        /\ Probe.ref.present => result = Return(<<NameOf(Probe)>>)
        /\ \A n \in ChildrenOf(Probe) : \A i \in 0..(MaxIndent + 1) :
              heap[n].ref.present =>
                  \A d \in {1, stackLimit(heap)} :
                      schemaToType(heap, Ptr(n), i, d, stackLimit(heap))
                          = Return(<<NameOf(heap[n])>>)
        /\ (~Probe.ref.present /\ Probe.type = Some("array") /\ Probe.items.present
                /\ heap[Probe.items.value.node].ref.present) =>
              result = Return(<<"Array<", NameOf(heap[Probe.items.value.node]), ">">>)

C11_Witness ==
    /\ Projected
    /\ Probe.ref = Some(PetRef)
    /\ Probe.type = Some("object")
    /\ Probe.properties.present
    /\ Probe.allOf.present
    /\ result = Return(<<"Pet">>)

\* the node is neither a reference nor of a recognised type: what is left
\* to look at is its composite keys
Untyped ==
    /\ ~Probe.ref.present
    /\ Probe.type \notin {Some(t) : t \in RecognisedTypes}

\* the projections of the alternatives of a composite key of the node
ProjectionsOf(alternatives) ==
    [i \in 1..Len(alternatives) |->
        schemaToType(heap, alternatives[i], indentArg + 1, 2, stackLimit(heap))]
Texts(projections) == [i \in 1..Len(projections) |-> projections[i].value]
AllReturn(projections) == \A i \in 1..Len(projections) : projections[i].threw = "none"

\* the texts one after the other with the operator between them
RECURSIVE Combined(_, _)
Combined(texts, operator) ==
    IF texts = <<>> THEN <<>>
    ELSE IF Len(texts) = 1 THEN texts[1]
    ELSE texts[1] \o <<operator>> \o Combined(Tail(texts), operator)

Layout == {"  ", "\n"}
Unindented(text) == SelectSeq(text, LAMBDA piece : piece \notin Layout)

\* the texts one after the other
RECURSIVE Flat(_)
Flat(texts) == IF texts = <<>> THEN <<>> ELSE Head(texts) \o Flat(Tail(texts))

\* the node is an object schema with properties
IsRecord ==
    /\ ~Probe.ref.present
    /\ Probe.type = Some("object")
    /\ Probe.properties.present

RequiredNames ==
    IF Probe.required.present
    THEN {Probe.required.value[i] : i \in 1..Len(Probe.required.value)}
    ELSE {}

\* the field of the i-th property: its name, a ? unless the name is
\* required, and the projection of its schema
FieldOf(i) ==
    LET property == Probe.properties.value[i]
        type == schemaToType(heap, property.value, indentArg + 1, 2, stackLimit(heap))
    IN  <<property.key>>
        \o (IF property.key \in RequiredNames THEN <<>> ELSE <<"?">>)
        \o <<": ">> \o Unindented(type.value) \o <<";">>

\* C13: an object schema with properties projects to a record with exactly
\* one field per property, in the order the properties are declared; a field
\* is marked optional (?) exactly when its name is not in the required list
\* (no required list: every field optional) and its type is the projection
\* of the property's schema; {type: object, properties: {name: {type:
\* string}, age: {type: integer}}, required: [name]} gives name: string and
\* age?: number
C13_RecordOfProperties ==
    (Projected /\ IsRecord) =>
        LET properties == Probe.properties.value
        IN  /\ AllReturn(ProjectionsOf([i \in 1..Len(properties) |-> properties[i].value])) =>
                  /\ result.threw = "none"
                  /\ Unindented(result.value)
                         = <<"{">> \o Flat([i \in 1..Len(properties) |-> FieldOf(i)]) \o <<"}">>
            /\ Probe = PersonSchema =>
                  /\ result.threw = "none"
                  /\ Unindented(result.value)
                         = <<"{", "name", ": ", "string", ";",
                             "age", "?", ": ", "number", ";", "}">>

C13_Witness ==
    /\ Projected
    /\ Probe = PersonSchema
    /\ indentArg = 0
    /\ result = Return(<<"{", "\n", "  ", "name", ": ", "string", ";", "\n",
                         "  ", "age", "?", ": ", "number", ";", "\n", "}">>)

\* the node is an object schema without properties
IsMap ==
    /\ ~Probe.ref.present
    /\ Probe.type = Some("object")
    /\ ~Probe.properties.present

\* the additional-properties policy of the node
Policy ==
    IF ~Probe.additionalProperties.present THEN "absent"
    ELSE IF Probe.additionalProperties.value.kind = "schema" THEN "typed"
    ELSE IF Probe.additionalProperties.value = Bool(FALSE) THEN "forbidden"
    ELSE "open"

\* C14: an object schema without properties projects by its
\* additional-properties policy and by nothing else: forbidden (false) gives
\* Record<string, never>, typed (a schema T) gives Record<string, T> with T
\* the projection of that schema, absent gives Record<string, any>
C14_MapByPolicy ==
    (Projected /\ IsMap) =>
        /\ Policy = "forbidden" => result = Return(<<"Record<string, never>">>)
        /\ Policy = "typed" =>
              LET T == schemaToType(heap, Probe.additionalProperties.value, indentArg,
                                    2, stackLimit(heap))
              IN  T.threw = "none" =>
                      result = Return(<<"Record<string, ">> \o T.value \o <<">">>)
        /\ Policy = "absent" => result = Return(<<"Record<string, any>">>)

C14_Witness ==
    /\ Projected
    /\ IsMap
    /\ Policy = "typed"
    /\ Probe.items.present
    /\ result = Return(<<"Record<string, ", "Array<", "string", ">", ">">>)

HasComposite == Probe.allOf.present \/ Probe.oneOf.present \/ Probe.anyOf.present

\* C15: a string schema with an enumeration projects to the union of its
\* values as quoted literals in enumeration order; a string schema without
\* one projects to string whatever its format; integer and number project
\* to number; boolean projects to boolean; a node whose type is absent or
\* unrecognised and that has no composite key projects to any
C15_PrimitiveProjection ==
    (Projected /\ ~Probe.ref.present) =>
        /\ (Probe.type = Some("string") /\ Probe.enum.present) =>
              result = Return(Combined([i \in 1..Len(Probe.enum.value) |->
                                           <<"'", Probe.enum.value[i], "'">>], " | "))
        /\ (Probe.type = Some("string") /\ ~Probe.enum.present) =>
              result = Return(<<"string">>)
        /\ Probe.type \in {Some("integer"), Some("number")} => result = Return(<<"number">>)
        /\ Probe.type = Some("boolean") => result = Return(<<"boolean">>)
        /\ (Untyped /\ ~HasComposite) => result = Return(<<"any">>)

C15_Witness ==
    /\ Projected
    /\ Probe.type = Some("string")
    /\ Probe.format = Some("date-time")
    /\ Probe.enum = Some(<<"a", "b">>)
    /\ result = Return(<<"'", "a", "'", " | ", "'", "b", "'">>)

\* the node is an array schema
IsArray == ~Probe.ref.present /\ Probe.type = Some("array")

\* C16: an array schema with an item schema projects to Array<T>, T the
\* projection of the item schema: Array<Array<string>> for items that are
\* an array of strings, Array<name> for items that are a reference; without
\* an item schema it projects to any[], and with the empty item schema {}
\* to Array<any>
C16_ArrayOfItems ==
    (Projected /\ IsArray) =>
        /\ Probe.items.present =>
              LET T == schemaToType(heap, Probe.items.value, indentArg, 2, stackLimit(heap))
              IN  T.threw = "none" => result = Return(<<"Array<">> \o T.value \o <<">">>)
        /\ Probe.items = Some(Ptr(7)) =>
              result = Return(<<"Array<", "Array<", "string", ">", ">">>)
        /\ (Probe.items.present /\ heap[Probe.items.value.node].ref.present) =>
              result = Return(<<"Array<", NameOf(heap[Probe.items.value.node]), ">">>)
        /\ ~Probe.items.present => result = Return(<<"any[]">>)
        /\ (Probe.items.present /\ heap[Probe.items.value.node] = EmptySchema) =>
              result = Return(<<"Array<", "any", ">">>)

C16_Witness ==
    /\ Projected
    /\ IsArray
    /\ Probe.items = Some(Ptr(7))
    /\ heap[7].type = Some("array")
    /\ result = Return(<<"Array<", "Array<", "string", ">", ">">>)

\* a text without its indentation
Indentation == "  "
WithoutIndentation(text) == SelectSeq(text, LAMBDA piece : piece # Indentation)

\* what schemaToType gives for the same node at another depth
AtDepth(d) == schemaToType(heap, root, d, 1, stackLimit(heap))

\* C17: for a node with no reference and no composite key, the projections
\* at any two depths (the one of the call and every other one) differ at
\* most in indentation whitespace
C17_DepthOnlyIndents ==
    (Projected /\ ~Probe.ref.present /\ ~HasComposite) =>
        \A d \in 0..(MaxIndent + 1) :
            /\ AtDepth(d).threw = result.threw
            /\ result.threw = "none" =>
                  WithoutIndentation(AtDepth(d).value) = WithoutIndentation(result.value)

C17_Witness ==
    /\ Projected
    /\ ~HasComposite
    /\ IsRecord
    /\ Len(Probe.properties.value) = 2
    /\ indentArg = 1
    /\ result.threw = "none"
    /\ AtDepth(0).value # result.value
    /\ WithoutIndentation(AtDepth(0).value) = WithoutIndentation(result.value)

(***************************************************************************)
(* Claims about the generate command (SpecRun).                            *)
(***************************************************************************)
\* loading the file fails: it is not there, it cannot be read, it cannot be
\* parsed, or it refers to a location that does not exist
FailsToLoad(file) ==
    \/ ~file.exists
    \/ ~file.readable
    \/ ~file.wellFormed
    \/ \E n \in 1..Len(file.document.heap) :
          /\ file.document.heap[n].ref.present
          /\ \A c \in 1..Len(file.document.components) :
                RefTo(file.document.components[c].key) # file.document.heap[n].ref.value
SomeLoadFails == \E i \in 1..Len(inputFiles) : FailsToLoad(inputFiles[i])

\* a renderer or its endpoint extraction has started
RenderingStarted ==
    \/ handed # <<>>
    \/ allEndpoints # <<>>
    \/ cpc \in {"sdk", "hooks", "markdown", "html", "done"}

\* C18: when loading one of the input documents fails, no renderer and no
\* endpoint extraction is ever started, and the run can only end with exit
\* status 1: it is checking the files, calling the loads, exited, or
\* awaiting loads of which one is pending or rejected, so that the await
\* cannot return; and renderers start only when every document has loaded
C18_FailFast ==
    /\ SomeLoadFails =>
          /\ ~RenderingStarted
          /\ cpc \in {"check", "map", "await", "exit1"}
          /\ cpc = "await" => \E i \in 1..Len(loads) : loads[i] \in {"pending", "rejected"}
    /\ RenderingStarted =>
          /\ Len(loads) = Len(inputFiles)
          /\ \A i \in 1..Len(loads) : loads[i] = "fulfilled"

C18_Witness ==
    /\ cpc = "exit1"
    /\ Len(inputFiles) = 2
    /\ inputFiles[2] = FileOf(GhostDocument)
    /\ loads = <<"fulfilled", "rejected">>
    /\ settled = <<1, 2>>
    /\ handed = <<>>
    /\ allEndpoints = <<>>

\* the document loading the i-th input file gives
LoadedFrom(i) == dereference(inputFiles[i].document).value
InFileOrder == [i \in 1..Len(inputFiles) |-> LoadedFrom(i)]

\* C19: the loads of several input files are in flight together and settle
\* in any order, and whatever that order the list of documents every
\* renderer is handed is in the order of the input files, and the endpoint
\* list a renderer collects is the endpoints of the first document, then
\* those of the second, and so on
C19_FileOrderKept ==
    /\ \A k \in 1..Len(handed) : handed[k].specs = InFileOrder
    /\ \A k \in 1..Len(allEndpoints) :
          allEndpoints[k].endpoints
              = Flat([i \in 1..Len(inputFiles) |-> extractEndpoints(LoadedFrom(i))])

C19_Witness ==
    /\ cpc = "done"
    /\ inputFiles = <<FileOf(UsersDocument), FileOf(ItemDocument)>>
    /\ settled = <<2, 1>>
    /\ Len(handed) = 4
    /\ handed[2] = [renderer |-> "hooks", specs |-> InFileOrder]
    /\ allEndpoints[1].renderer = "hooks"
    /\ Len(allEndpoints[1].endpoints) = 3
    /\ allEndpoints[1].endpoints[1].path = UsersPath
    /\ allEndpoints[1].endpoints[3].path = UsersIdPath

(***************************************************************************)
(* Claims about what loadOpenAPISpec returns (SpecLoad).                   *)
(***************************************************************************)
\* the values in the child positions of a node, in a fixed order
Slots(node) ==
    LET ofValue(opt) == IF opt.present THEN <<opt.value>> ELSE <<>>
        ofList(opt) == IF opt.present THEN opt.value ELSE <<>>
    IN  ofValue(node.items) \o ofValue(node.additionalProperties)
        \o (IF node.properties.present
            THEN [i \in 1..Len(node.properties.value) |-> node.properties.value[i].value]
            ELSE <<>>)
        \o ofList(node.allOf) \o ofList(node.oneOf) \o ofList(node.anyOf)

\* a node with its child positions emptied: what it says itself
Own(node) ==
    [node EXCEPT
        !.items = [present |-> node.items.present],
        !.additionalProperties = [present |-> node.additionalProperties.present],
        !.properties =
            IF node.properties.present
            THEN Some([i \in 1..Len(node.properties.value) |-> node.properties.value[i].key])
            ELSE Absent,
        !.allOf = IF node.allOf.present THEN Some(Len(node.allOf.value)) ELSE Absent,
        !.oneOf = IF node.oneOf.present THEN Some(Len(node.oneOf.value)) ELSE Absent,
        !.anyOf = IF node.anyOf.present THEN Some(Len(node.anyOf.value)) ELSE Absent]

\* the value is a reference node of the parsed document
IsReference(v) == v.kind = "schema" /\ parsed.heap[v.node].ref.present

\* the content at the location the reference node names, in the returned tree
ContentAt(v) ==
    LET ref == parsed.heap[v.node].ref.value
        c == CHOOSE c \in 1..Len(resolved.components) :
                 RefTo(resolved.components[c].key) = ref
    IN  resolved.components[c].value

\* what stands in the returned tree where v stood in the parsed one
Replaces(after, v) == after = (IF IsReference(v) THEN ContentAt(v) ELSE v)

\* the nodes of the returned tree
Returned ==
    ReachedFrom(resolved,
                {resolved.components[i].value.node : i \in 1..Len(resolved.components)}
                \cup {resolved.response.node},
                Len(resolved.heap))

Generated == hpc = "generated"

\* some media-type entry of the content carries a schema
CarriesSchema(c) ==
    /\ c.present
    /\ \E i \in 1..Len(c.value) :
          c.value[i].value # Undefined /\ c.value[i].value.schema.present

\* the response entry has no content, or content without any schema
Bodiless(response) == ~CarriesSchema(response.content)

\* the response the hook is typed by: the entry of the first 2xx status, if any
Typed(e) == successResponseOf(e.responses)

\* C21: a response entry with no content, or whose content carries no
\* schema, projects its body type to any, and generating the hook of the
\* endpoint that owns such an entry completes without error
C21_BodilessResponseIsAny ==
    Generated =>
        /\ \A i \in 1..Len(endpoint.responses) :
              Bodiless(endpoint.responses[i].value) =>
                  generateResponseType(GenHeap, endpoint.responses[i].value)
                      = Return(<<"any">>)
        /\ (Typed(endpoint) = Undefined \/ Bodiless(Typed(endpoint))) =>
              /\ hook.threw = "none"
              /\ hook.value.responseType = <<"any">>

C21_Witness ==
    /\ Generated
    /\ endpoint.responses = <<[key |-> Status(404), value |-> ResponseOf(Absent)]>>
    /\ hook.threw = "none"
    /\ hook.value.responseType = <<"any">>

(***************************************************************************)
(* Claims about repeated calls of the Operation Namer (SpecCalls).         *)
(***************************************************************************)
NamerCalls == {i \in 1..Len(calls) : calls[i].kind = "call"}
SameArguments(i, j) == calls[i].path = calls[j].path /\ calls[i].method = calls[j].method

IsQuery == hook.value.kind = "query"
IsMutationHook == hook.value.kind = "mutation"
Automatic == {i \in 1..Len(requests) : requests[i].cause \in {"mount", "deps"}}
Runs == 1..Len(effects)

\* C23: a GET endpoint gets a query hook and a POST, PUT, DELETE or PATCH
\* endpoint a mutation hook.  The query hook issues a request by itself on
\* mount and on each change of a dependency, unless enabled is false then,
\* and issues none by itself otherwise; the mutation hook issues a request
\* only when mutate() is called
C23_WhoIssuesRequests ==
    /\ IsQuery <=> endpoint.method = toUpperCase(GET)
    /\ IsMutationHook <=>
          endpoint.method \in {toUpperCase(POST), toUpperCase(PUT),
                               toUpperCase(DELETE), toUpperCase(PATCH)}
    /\ IsMutationHook =>
          /\ \A i \in 1..Len(requests) : requests[i].cause = "mutate"
          /\ effects = <<>>
    /\ IsQuery =>
          /\ \A i \in 1..Len(requests) : requests[i].cause # "mutate"
          /\ rpc = "mounted" => (effects # <<>> /\ effects[1].cause = "mount")
          /\ \A k \in Runs :
                (effects[k].enabled # Some(FALSE)) <=> (effects[k].request # 0)
          /\ \A k \in Runs :
                effects[k].request # 0 =>
                    requests[effects[k].request].cause = effects[k].cause
          /\ \A i \in Automatic : \E k \in Runs : effects[k].request = i

\* a query hook that was mounted with enabled false, rendered with changed
\* dependencies and enabled missing, and refetched in between
C23_Witness ==
    /\ IsQuery
    /\ Len(effects) = 2
    /\ effects[1] = EffectRun("mount", Some(FALSE), 0)
    /\ effects[2] = EffectRun("deps", Absent, 2)
    /\ Len(requests) = 2
    /\ requests[1].cause = "refetch"
    /\ requests[2].cause = "deps"

\* C24: in a mutation hook, loading is true exactly while at least one
\* mutate() call is in flight, overlapping calls included
C24_LoadingWhileInFlight ==
    (IsMutationHook /\ rpc = "mounted") => (loading <=> Pending # {})

LastArrived == arrivals[Len(arrivals)]

\* C28: in a query hook, once a request has completed successfully and
\* nothing is in flight, error is null, loading is false and data holds the
\* response of that request
C28_SuccessLeavesNoError ==
    (/\ IsQuery
     /\ arrivals # <<>>
     /\ Pending = {}
     /\ requests[LastArrived].outcome = "ok")
        => (error = 0 /\ loading = FALSE /\ data = LastArrived)

\* C29: in a query hook, when a request was issued while an earlier one was
\* in flight and all have settled, data holds the response of the request
\* issued last, whatever the order of arrival
C29_LatestRequestWins ==
    (/\ IsQuery
     /\ Len(requests) >= 2
     /\ Pending = {}
     /\ \A i \in 1..Len(requests) : requests[i].outcome = "ok")
        => data = Len(requests)

(***************************************************************************)
(* Claims about the content lookup (SpecContent).                          *)
(***************************************************************************)
Looked == gpc = "returned"

\* the schemas of the entries that carry one, in the order of the entries
SchemasOf(c) ==
    LET carrying == SelectSeq(c.value, LAMBDA item :
                                  item.value # Undefined /\ item.value.schema.present)
    IN  [i \in 1..Len(carrying) |-> carrying[i].value.schema.value]

JsonSchemaOf(c) ==
    LET json == SelectSeq(c.value, LAMBDA item : item.key = "application/json")
    IN  IF json # <<>> /\ json[1].value # Undefined THEN json[1].value.schema ELSE Absent

\* C25: getSchemaFromContent returns the schema of the application/json
\* entry when that entry has one, otherwise the first schema among the
\* content's entries, and undefined only when the content is absent or no
\* entry carries a schema
C25_FirstAvailableSchema ==
    Looked =>
        /\ ~content.present => found = Undefined
        /\ content.present =>
              found = IF JsonSchemaOf(content).present THEN JsonSchemaOf(content).value
                      ELSE IF SchemasOf(content) # <<>> THEN SchemasOf(content)[1]
                      ELSE Undefined

(***************************************************************************)
(* Claims about the precedence of type over composition (SpecProject).     *)
(***************************************************************************)
HasRecognisedType ==
    /\ ~Probe.ref.present
    /\ Probe.type \in {Some(t) : t \in RecognisedTypes}

\* the heap with the composite keys of the node taken away
WithoutComposites ==
    [heap EXCEPT ![1] = [Probe EXCEPT !.allOf = Absent, !.oneOf = Absent, !.anyOf = Absent]]

\* C26: allOf, oneOf and anyOf are consulted only when type is absent or
\* unrecognised: a node with a recognised type projects to the same text
\* with and without composite keys
C26_TypeBeforeComposition ==
    (Projected /\ HasRecognisedType) =>
        result = schemaToType(WithoutComposites, root, indentArg, 1, stackLimit(heap))

C26_Witness ==
    /\ Projected
    /\ HasRecognisedType
    /\ Probe.type = Some("object")
    /\ Probe.properties.present
    /\ Len(Probe.properties.value) = 2
    /\ Probe.allOf.present
    /\ Probe.allOf.value # <<>>
    /\ Probe.oneOf.present
    /\ result.threw = "none"
    /\ result.value[1] = "{"

(***************************************************************************)
(* Claims about the names in the generated hook text (SpecGenerate).       *)
(***************************************************************************)
TypeNames ==
    {implode(endpoint.operationId) \o suffix :
        suffix \in {"PathParams", "QueryParams", "RequestBody"}}

\* the type of the hook's params argument refers to the name
Referenced(name) ==
    \E i \in 1..Len(hook.value.paramsType) : hook.value.paramsType[i] = name

\* the text in front of the hook function declares the name
Declared(name) ==
    \E i \in 1..(Len(hook.value.declarations) - 1) :
        /\ hook.value.declarations[i] \in {"export interface ", "export type "}
        /\ hook.value.declarations[i + 1] = name

\* C27: the hook's parameter type refers to a type name exactly when the
\* same hook text declares it, a request body without usable content
\* schema included
C27_ReferencedNamesAreDeclared ==
    (Generated /\ hook.threw = "none") =>
        \A name \in TypeNames : Referenced(name) <=> Declared(name)

=============================================================================
